---- MODULE Spec2Model ----
(***************************************************************************)
(* A model of the jobspy filter-expression subsystem: the query AST and    *)
(* its evaluator (jobspy/querying/query.py), the query parser              *)
(* (jobspy/querying/parser.py) and the lazy filter driver                  *)
(* (jobspy/querying/__init__.py).                                          *)
(***************************************************************************)
EXTENDS Integers, Sequences, FiniteSets, TLC

VARIABLES
    query,      \* the Queryable under evaluation (a Condition or a Query)
    item,       \* the record it is evaluated against: attribute name -> value
    outcome,    \* "pending", or what evaluate returned / raised
    calls,      \* the evaluate() calls made, as child-index paths, in call order
    query_text, \* the query string handed to QueryParser.parse
    fragments,  \* the condition fragments query_text was written with, in order
    keywords,   \* the keywords, with their whitespace, written between them
    parsed,     \* what parse gave: the Query built, or the error raised
    items,      \* the list handed to filter_items
    generator,  \* the generator filter_items returns: "none" before the call,
                \* then "suspended", "exhausted", or the exception it raised
    position,   \* how many items the generator has taken from the list
    received,   \* the items the generator has yielded, in order
    evaluated,  \* the list indexes of the items query.evaluate was called on,
                \* in call order
    demands,    \* how many times the consumer has called next(generator)
    literal,    \* the value text handed to QueryParser._parse_value
    coerced,    \* the value _parse_value returned; Pending before the call
    threads,    \* of each thread evaluating `query`: its record, the frames of
                \* its evaluate() calls, the last result returned, its outcome
    cache,      \* the jobs the client holds, by id
    jobs,       \* JobSpy.jobs
    master,     \* the rows of the master table, a job each
    details,    \* the job the details pane shows; None before any
    input,      \* the text of the filter input
    mounted     \* whether on_mount has run

evalVars == <<query, item, outcome, calls>>

parseVars == <<query_text, fragments, keywords, parsed>>

filterVars == <<items, generator, position, received, evaluated, demands>>

valueVars == <<literal, coerced>>

threadVars == <<threads>>

appVars == <<cache, jobs, master, details, input, mounted>>

vars ==
    <<query, item, outcome, calls, query_text, fragments, keywords, parsed,
      items, generator, position, received, evaluated, demands, literal, coerced,
      threads, cache, jobs, master, details, input, mounted>>

(***************************************************************************)
(* Python values.  Every value is a record of one shape: its runtime type  *)
(* (kind), a numeric payload n and a string payload s.                     *)
(*   str        s = the text                                               *)
(*   bool       n = 1 (True) or 0 (False)                                  *)
(*   int        n = the number                                             *)
(*   float      n = the number in hundredths                               *)
(*   datetime   n = the instant, in seconds                                *)
(*   timedelta  n = the span, in seconds                                   *)
(*   date       n = the day (a field type outside VALID_OPERATOR_MAP)      *)
(***************************************************************************)
PyValue(kind, n, s) == [kind |-> kind, n |-> n, s |-> s]

None == PyValue("NoneType", 0, "")

PyStr(s) == PyValue("str", 0, s)

PyBool(b) == PyValue("bool", IF b THEN 1 ELSE 0, "")

PyInt(n) == PyValue("int", n, "")

PyFloat(hundredths) == PyValue("float", hundredths, "")

PyDatetime(seconds) == PyValue("datetime", seconds, "")

PyTimedelta(seconds) == PyValue("timedelta", seconds, "")

PyDate(day) == PyValue("date", day, "")

\* class LogicOperator(StrEnum)
AND == "AND"

OR == "OR"

LogicOperator == {AND, OR}

\* class ComparisonOperator(StrEnum)
EQ == "="

NE == "!="

LT == "<"

GT == ">"

LE == "<="

GE == ">="

ComparisonOperator == {EQ, NE, LT, GT, LE, GE}

\* A table that files bool with the numbers, so that it takes the ordering operators.
VALID_OPERATOR_MAP_BoolAsNumber ==
    [t \in {"str", "bool", "int", "float", "datetime", "timedelta"} |->
        IF t = "str" THEN {EQ, NE} ELSE {EQ, NE, LT, GT, LE, GE}]

\* The type -> legal operators table.
VALID_OPERATOR_MAP ==
    [t \in {"str", "bool", "int", "float", "datetime", "timedelta"} |->
        IF t \in {"str", "bool"} THEN {EQ, NE} ELSE {EQ, NE, LT, GT, LE, GE}]

(***************************************************************************)
(* Python str.  A str is a TLA+ string; a character is a string of length  *)
(* one.                                                                    *)
(***************************************************************************)
Char(s, i) == SubSeq(s, i, i)

\* The position of character c in string s, 0 when it is not there.
IndexIn(c, s) ==
    IF \E i \in 1..Len(s) : Char(s, i) = c
    THEN CHOOSE i \in 1..Len(s) : Char(s, i) = c /\ \A j \in 1..(i - 1) : Char(s, j) # c
    ELSE 0

AsciiLowercase == "abcdefghijklmnopqrstuvwxyz"

AsciiUppercase == "ABCDEFGHIJKLMNOPQRSTUVWXYZ"

AsciiDigits == "0123456789"

\* The printable ASCII characters the model uses, in code-point order.
AsciiPrintable ==
    " !\"'+-.0123456789:<=>ABCDEFGHIJKLMNOPQRSTUVWXYZ_abcdefghijklmnopqrstuvwxyz"

\* What \s matches and str.strip() removes.
IsSpace(c) == c \in {" ", "\t", "\n", "\r"}

IsDigit(c) == IndexIn(c, AsciiDigits) > 0

DigitValue(c) == IndexIn(c, AsciiDigits) - 1

\* What \w matches.
IsWord(c) ==
    \/ IndexIn(c, AsciiLowercase) > 0
    \/ IndexIn(c, AsciiUppercase) > 0
    \/ IsDigit(c)
    \/ c = "_"

ToUpper(c) ==
    IF IndexIn(c, AsciiLowercase) > 0
    THEN Char(AsciiUppercase, IndexIn(c, AsciiLowercase)) ELSE c

ToLower(c) ==
    IF IndexIn(c, AsciiUppercase) > 0
    THEN Char(AsciiLowercase, IndexIn(c, AsciiUppercase)) ELSE c

RECURSIVE Upper(_), Lower(_), LStrip(_, _), RStrip(_, _), StrLess(_, _)

\* str.upper()
Upper(s) == IF s = "" THEN "" ELSE ToUpper(Head(s)) \o Upper(Tail(s))

\* str.lower()
Lower(s) == IF s = "" THEN "" ELSE ToLower(Head(s)) \o Lower(Tail(s))

\* str.lstrip(chars) and str.rstrip(chars), chars a set of characters.
LStrip(s, chars) ==
    IF s # "" /\ Head(s) \in chars THEN LStrip(Tail(s), chars) ELSE s

RStrip(s, chars) ==
    IF s # "" /\ Char(s, Len(s)) \in chars
    THEN RStrip(SubSeq(s, 1, Len(s) - 1), chars) ELSE s

\* str.strip(chars)
StripChars(s, chars) == RStrip(LStrip(s, chars), chars)

\* str.strip()
Strip(s) == StripChars(s, {" ", "\t", "\n", "\r"})

\* a < b for two str: by code point, a proper prefix first.
StrLess(a, b) ==
    IF b = "" THEN FALSE
    ELSE IF a = "" THEN TRUE
    ELSE IF Head(a) = Head(b) THEN StrLess(Tail(a), Tail(b))
    ELSE IndexIn(Head(a), AsciiPrintable) < IndexIn(Head(b), AsciiPrintable)

\* Python's x < y for the values of the model.
PyLess(x, y) == IF x.kind = "str" THEN StrLess(x.s, y.s) ELSE x.n < y.n

\* Python's x == y for the values of the model.
PyEq(x, y) ==
    IF x.kind = "str" \/ y.kind = "str"
    THEN x.kind = y.kind /\ x.s = y.s
    ELSE x.n = y.n

\* The table with the operands of each lambda the other way round.
OPERATOR_FUNCTION_MAP_Swapped(operator, x, y) ==
    CASE operator = EQ -> PyEq(y, x)
      [] operator = NE -> ~PyEq(y, x)
      [] operator = LT -> PyLess(y, x)
      [] operator = GT -> PyLess(x, y)
      [] operator = LE -> ~PyLess(x, y)
      [] operator = GE -> ~PyLess(y, x)

\* The operator -> comparison function table, applied to (x, y).
OPERATOR_FUNCTION_MAP(operator, x, y) ==
    CASE operator = EQ -> PyEq(x, y)
      [] operator = NE -> ~PyEq(x, y)
      [] operator = LT -> PyLess(x, y)
      [] operator = GT -> PyLess(y, x)
      [] operator = LE -> ~PyLess(y, x)
      [] operator = GE -> ~PyLess(x, y)

\* Python's class hierarchy among the runtime types of the model:
\* bool is a subclass of int, datetime is a subclass of date.
Superclasses(kind) ==
    CASE kind = "bool" -> {"bool", "int"}
      [] kind = "datetime" -> {"datetime", "date"}
      [] OTHER -> {kind}

\* isinstance(value, item_type)
IsInstance(value, item_type) == item_type \in Superclasses(value.kind)

\* getattr(item, field, None)
GetAttr(it, field) == IF field \in DOMAIN it THEN it[field] ELSE None

(***************************************************************************)
(* The AST.  Condition and Query nodes share one record shape; tag tells   *)
(* them apart and the fields of the other class hold fillers.              *)
(***************************************************************************)
Condition(field, operator, value) ==
    [tag |-> "Condition", field |-> field, operator |-> operator, value |-> value,
     queryables |-> <<>>, logic_operator |-> "-"]

Query(queryables, logic_operator) ==
    [tag |-> "Query", field |-> "-", operator |-> "-", value |-> None,
     queryables |-> queryables, logic_operator |-> logic_operator]

\* What evaluate() gives: the boolean returned, or the exception raised.
RetTrue == "True"

RetFalse == "False"

Ret(b) == IF b THEN RetTrue ELSE RetFalse

\* Condition.evaluate with the type check ahead of the None check.
ConditionEvaluate_TypeCheckFirst(c, it) ==
    LET item_value == GetAttr(it, c.field)
        item_type == item_value.kind
    IN  IF ~IsInstance(c.value, item_type) THEN "TypeMismatchError"
        ELSE IF item_value = None THEN RetFalse
        ELSE IF item_type \notin DOMAIN VALID_OPERATOR_MAP THEN "KeyError"
        ELSE IF c.operator \notin VALID_OPERATOR_MAP[item_type]
             THEN "InvalidOperatorError"
        ELSE Ret(OPERATOR_FUNCTION_MAP(c.operator, item_value, c.value))

\* Condition.evaluate with the operator check ahead of the type check.
ConditionEvaluate_OperatorCheckFirst(c, it) ==
    LET item_value == GetAttr(it, c.field)
        item_type == item_value.kind
    IN  IF item_value = None THEN RetFalse
        ELSE IF item_type \notin DOMAIN VALID_OPERATOR_MAP THEN "KeyError"
        ELSE IF c.operator \notin VALID_OPERATOR_MAP[item_type]
             THEN "InvalidOperatorError"
        ELSE IF ~IsInstance(c.value, item_type) THEN "TypeMismatchError"
        ELSE Ret(OPERATOR_FUNCTION_MAP(c.operator, item_value, c.value))

\* Condition.evaluate(item)
ConditionEvaluate(c, it) ==
    LET item_value == GetAttr(it, c.field)
        item_type == item_value.kind
    IN  IF item_value = None THEN RetFalse
        ELSE IF ~IsInstance(c.value, item_type) THEN "TypeMismatchError"
        ELSE IF item_type \notin DOMAIN VALID_OPERATOR_MAP THEN "KeyError"
        ELSE IF c.operator \notin VALID_OPERATOR_MAP[item_type]
             THEN "InvalidOperatorError"
        ELSE Ret(OPERATOR_FUNCTION_MAP(c.operator, item_value, c.value))

RECURSIVE Evaluate(_, _, _), PyAll(_, _, _, _), PyAny(_, _, _, _)

RECURSIVE PyAll_List(_, _, _, _), PyAny_List(_, _, _, _)

\* Whether evaluate() raised.
Raised(out) == out \notin {RetTrue, RetFalse}

\* all([...]) over a list built first: every child is evaluated before all() looks.
PyAll_List(q, it, path, i) ==
    IF i > Len(q.queryables) THEN [out |-> RetTrue, calls |-> <<>>]
    ELSE LET r == Evaluate(q.queryables[i], it, Append(path, i))
         IN  IF Raised(r.out) THEN r
             ELSE LET rest == PyAll_List(q, it, path, i + 1)
                  IN  [out |-> IF Raised(rest.out) \/ r.out = RetTrue
                               THEN rest.out ELSE RetFalse,
                       calls |-> r.calls \o rest.calls]

\* any([...]) over a list built first.
PyAny_List(q, it, path, i) ==
    IF i > Len(q.queryables) THEN [out |-> RetFalse, calls |-> <<>>]
    ELSE LET r == Evaluate(q.queryables[i], it, Append(path, i))
         IN  IF Raised(r.out) THEN r
             ELSE LET rest == PyAny_List(q, it, path, i + 1)
                  IN  [out |-> IF Raised(rest.out) \/ r.out = RetFalse
                               THEN rest.out ELSE RetTrue,
                       calls |-> r.calls \o rest.calls]

\* all(queryable.evaluate(item) for queryable in self.queryables), from child i:
\* children are evaluated in order; the first falsy result ends the loop, and an
\* exception leaves it.  Gives the result and the evaluate() calls made.
PyAll(q, it, path, i) ==
    IF i > Len(q.queryables) THEN [out |-> RetTrue, calls |-> <<>>]
    ELSE LET r == Evaluate(q.queryables[i], it, Append(path, i))
         IN  IF r.out # RetTrue THEN r
             ELSE LET rest == PyAll(q, it, path, i + 1)
                  IN  [out |-> rest.out, calls |-> r.calls \o rest.calls]

\* any(queryable.evaluate(item) for queryable in self.queryables), from child i.
PyAny(q, it, path, i) ==
    IF i > Len(q.queryables) THEN [out |-> RetFalse, calls |-> <<>>]
    ELSE LET r == Evaluate(q.queryables[i], it, Append(path, i))
         IN  IF r.out # RetFalse THEN r
             ELSE LET rest == PyAny(q, it, path, i + 1)
                  IN  [out |-> rest.out, calls |-> r.calls \o rest.calls]

\* Query.evaluate that answers False for a Query without children.
QueryEvaluate_EmptyIsFalse(q, it, path) ==
    IF q.queryables = <<>> THEN [out |-> RetFalse, calls |-> <<>>]
    ELSE IF q.logic_operator = AND THEN PyAll(q, it, path, 1)
    ELSE IF q.logic_operator = OR THEN PyAny(q, it, path, 1)
    ELSE [out |-> RetFalse, calls |-> <<>>]

\* Query.evaluate(item)
QueryEvaluate(q, it, path) ==
    IF q.logic_operator = AND THEN PyAll(q, it, path, 1)
    ELSE IF q.logic_operator = OR THEN PyAny(q, it, path, 1)
    ELSE [out |-> RetFalse, calls |-> <<>>]

\* queryable.evaluate(item), dispatched on the class of the node at `path`.
Evaluate(node, it, path) ==
    IF node.tag = "Condition"
    THEN [out |-> ConditionEvaluate(node, it), calls |-> <<path>>]
    ELSE LET r == QueryEvaluate(node, it, path)
         IN  [out |-> r.out, calls |-> <<path>> \o r.calls]

(***************************************************************************)
(* QueryParser: the tokenizer.                                             *)
(***************************************************************************)
\* The first position at or after i of s that holds no whitespace.
SpaceRunEnd(s, i) ==
    IF \E j \in i..Len(s) : ~IsSpace(Char(s, j))
    THEN CHOOSE j \in i..Len(s) :
            ~IsSpace(Char(s, j)) /\ \A k \in i..(j - 1) : IsSpace(Char(s, k))
    ELSE Len(s) + 1

\* The keyword looked for in upper case only.
KeywordLength_CaseSensitive(s, j) ==
    IF j + 2 <= Len(s) /\ SubSeq(s, j, j + 2) = "AND" THEN 3
    ELSE IF j + 1 <= Len(s) /\ SubSeq(s, j, j + 1) = "OR" THEN 2
    ELSE 0

\* The length of the keyword AND or OR, in any case, at position j of s; 0
\* when neither is there.
KeywordLength(s, j) ==
    IF j + 2 <= Len(s) /\ Upper(SubSeq(s, j, j + 2)) = "AND" THEN 3
    ELSE IF j + 1 <= Len(s) /\ Upper(SubSeq(s, j, j + 1)) = "OR" THEN 2
    ELSE 0

\* The match with whitespace from i, the keyword at j..(k - 1) and the whole
\* whitespace run behind it.  kw is group 1 and end the first position after
\* the match.
KeywordBetween(s, i, j, k) ==
    IF /\ i <= Len(s) /\ IsSpace(Char(s, i))
       /\ k > j
       /\ k <= Len(s) /\ IsSpace(Char(s, k))
    THEN [ok |-> TRUE, kw |-> SubSeq(s, j, k - 1), end |-> SpaceRunEnd(s, k)]
    ELSE [ok |-> FALSE, kw |-> "", end |-> i]

\* The match whose whitespace run from i ends before j.
KeywordFrom(s, i, j) == KeywordBetween(s, i, j, j + KeywordLength(s, j))

\* A match of \s+\b(AND|OR)\b\s+ (ignoring case) that starts at position i.
KeywordMatch(s, i) == KeywordFrom(s, i, SpaceRunEnd(s, i))

RECURSIVE ReSplit(_, _, _), SplitAt(_, _, _, _)

\* The search at position i with its result m: a match ends the piece
\* collected since `start` and adds its keyword, and the search goes on
\* behind it; without one it goes on at the next position.
SplitAt(s, start, i, m) ==
    IF m.ok
    THEN <<SubSeq(s, start, i - 1), m.kw>> \o ReSplit(s, m.end, m.end)
    ELSE ReSplit(s, start, i + 1)

\* re.split(pattern, s, flags=re.IGNORECASE): the text since `start` is the
\* piece being collected and i the position the search has reached.
ReSplit(s, start, i) ==
    IF i > Len(s) THEN <<SubSeq(s, start, Len(s))>>
    ELSE SplitAt(s, start, i, KeywordMatch(s, i))

\* [token.strip() for token in tokens]
StripAll(tokens) == [k \in 1..Len(tokens) |-> Strip(tokens[k])]

\* QueryParser._tokenize(query_str)
_tokenize(str) == StripAll(ReSplit(str, 1, 1))

(***************************************************************************)
(* QueryParser._parse_value: literal coercion.                             *)
(***************************************************************************)
\* What one conversion of the chain gives: whether it took the text, and the
\* value it made.
Converted(v) == [ok |-> TRUE, v |-> v]

NotConverted == [ok |-> FALSE, v |-> None]

\* The first attempt of the sequence that succeeded; the last one when none
\* did.
FirstOk(attempts) ==
    IF \E k \in 1..Len(attempts) : attempts[k].ok
    THEN attempts[CHOOSE k \in 1..Len(attempts) :
                    attempts[k].ok /\ \A j \in 1..(k - 1) : ~attempts[j].ok]
    ELSE attempts[Len(attempts)]

\* value.lower() in ["true", "false"]
ParseBool(value) ==
    IF Lower(value) \in {"true", "false"}
    THEN Converted(PyBool(Lower(value) = "true"))
    ELSE NotConverted

RECURSIVE DigitsValue(_, _)

\* The number a run of digits and underscores writes, continuing from acc.
DigitsValue(s, acc) ==
    IF s = "" THEN acc
    ELSE IF Head(s) = "_" THEN DigitsValue(Tail(s), acc)
    ELSE DigitsValue(Tail(s), 10 * acc + DigitValue(Head(s)))

\* Digits with single underscores between them: what int() and float() take
\* as a run of digits.
IsDigitPart(s) ==
    /\ s # ""
    /\ IsDigit(Head(s)) /\ IsDigit(Char(s, Len(s)))
    /\ \A i \in 1..Len(s) : IsDigit(Char(s, i)) \/ Char(s, i) = "_"
    /\ \A i \in 1..(Len(s) - 1) : ~(Char(s, i) = "_" /\ Char(s, i + 1) = "_")

\* The text without a leading sign, and the sign.
Unsigned(s) == IF s # "" /\ Head(s) \in {"+", "-"} THEN Tail(s) ELSE s

Sign(s) == IF s # "" /\ Head(s) = "-" THEN -1 ELSE 1

\* The int the text t writes: a sign, then digits.
IntLiteral(t) ==
    IF IsDigitPart(Unsigned(t))
    THEN Converted(PyInt(Sign(t) * DigitsValue(Unsigned(t), 0)))
    ELSE NotConverted

\* int(value): surrounding whitespace is ignored.
ParseInt(value) == IntLiteral(Strip(value))

\* The position of the first c in s; one past the end of s when there is none.
Find(s, c) == IF IndexIn(c, s) > 0 THEN IndexIn(c, s) ELSE Len(s) + 1

\* The text of s before its first c (all of s when there is none), and behind it.
Before(s, c) == SubSeq(s, 1, Find(s, c) - 1)

After(s, c) == SubSeq(s, Find(s, c) + 1, Len(s))

\* The digits of s without the underscores.
PlainDigits(s) == SelectSeq([i \in 1..Len(s) |-> Char(s, i)], LAMBDA c : c # "_")

\* The number whole.digits in hundredths, digits being at most two.
Hundredths(whole, digits) ==
    100 * DigitsValue(whole, 0)
    + (IF Len(digits) = 0 THEN 0
       ELSE IF Len(digits) = 1 THEN 10 * DigitValue(digits[1])
       ELSE 10 * DigitValue(digits[1]) + DigitValue(digits[2]))

\* Digits with an optional point and fraction, or a point and a fraction.
IsMantissa(whole, frac) ==
    /\ whole = "" \/ IsDigitPart(whole)
    /\ frac = "" \/ IsDigitPart(frac)
    /\ whole # "" \/ frac # ""

\* The float of a decimal number: a mantissa and an optional exponent.  A
\* number written without an exponent and with at most two fraction digits
\* is held in hundredths; any other float keeps its text in s, and its
\* number is not modelled.
Decimal(sign, mantissa, hasExponent, exponent, text) ==
    IF /\ IsMantissa(Before(mantissa, "."), After(mantissa, "."))
       /\ ~hasExponent \/ IsDigitPart(Unsigned(exponent))
    THEN IF ~hasExponent /\ Len(PlainDigits(After(mantissa, "."))) <= 2
         THEN Converted(PyFloat(sign * Hundredths(Before(mantissa, "."),
                                                  PlainDigits(After(mantissa, ".")))))
         ELSE Converted(PyValue("float", 0, text))
    ELSE NotConverted

\* The float a sign and the lower-case text u behind it write: inf, infinity
\* or nan, or a decimal number.  text is the whole literal in lower case.
FloatLiteral(sign, u, text) ==
    IF u \in {"inf", "infinity", "nan"}
    THEN Converted(PyValue("float", 0, text))
    ELSE Decimal(sign, Before(u, "e"), IndexIn("e", u) > 0, After(u, "e"), text)

\* float(value): surrounding whitespace is ignored.
ParseFloat(value) ==
    FloatLiteral(Sign(Strip(value)), Lower(Unsigned(Strip(value))), Lower(Strip(value)))

\* A failed match of a format directive.
NoMatch == [ok |-> FALSE, val |-> 0, end |-> 0]

\* A run of digits of s at i..j, all there and all digits.
DigitsAt(s, i, j) == j <= Len(s) /\ \A k \in i..j : IsDigit(Char(s, k))

\* The digit at position i of s; -1 when there is none.
DigitAt(s, i) ==
    IF i <= Len(s) /\ IsDigit(Char(s, i)) THEN DigitValue(Char(s, i)) ELSE -1

\* How many digits a numeric directive takes, as the regular expression
\* _strptime builds for it does (the first alternative that matches wins),
\* where c1 and c2 are the digits at the position and behind it (-1: none)
\* and four says that four digits are there; 0 when it does not match.
DirectiveWidth(d, c1, c2, four) ==
    CASE d = "%Y" -> IF four THEN 4 ELSE 0
      [] d = "%y" -> IF c1 >= 0 /\ c2 >= 0 THEN 2 ELSE 0
      [] d = "%m" ->
            IF c1 = 1 /\ c2 \in 0..2 THEN 2
            ELSE IF c1 = 0 /\ c2 >= 1 THEN 2
            ELSE IF c1 >= 1 THEN 1
            ELSE 0
      [] d = "%d" ->
            IF c1 = 3 /\ c2 \in 0..1 THEN 2
            ELSE IF c1 \in {1, 2} /\ c2 >= 0 THEN 2
            ELSE IF c1 = 0 /\ c2 >= 1 THEN 2
            ELSE IF c1 >= 1 THEN 1
            ELSE 0
      [] d = "%H" ->
            IF c1 = 2 /\ c2 \in 0..3 THEN 2
            ELSE IF c1 \in 0..1 /\ c2 >= 0 THEN 2
            ELSE IF c1 >= 0 THEN 1
            ELSE 0
      [] d = "%M" ->
            IF c1 \in 0..5 /\ c2 >= 0 THEN 2
            ELSE IF c1 >= 0 THEN 1
            ELSE 0
      [] d = "%S" ->
            IF c1 = 6 /\ c2 \in 0..1 THEN 2
            ELSE IF c1 \in 0..5 /\ c2 >= 0 THEN 2
            ELSE IF c1 >= 0 THEN 1
            ELSE 0
      [] OTHER -> 0

\* The directive took the len digits of s at i; none when len is 0.
Matched(s, i, len) ==
    IF len = 0 THEN NoMatch
    ELSE [ok |-> TRUE, val |-> DigitsValue(SubSeq(s, i, i + len - 1), 0),
          end |-> i + len]

\* One element of a strptime format matched against s at position i: a
\* blank of the format takes a whitespace run, any other character itself,
\* %d also a blank and a digit from 1 to 9, and a directive its digits.
\* val is the number read, end the next position.
MatchDirective(d, s, i) ==
    IF d = " "
    THEN IF i <= Len(s) /\ IsSpace(Char(s, i))
         THEN [ok |-> TRUE, val |-> 0, end |-> SpaceRunEnd(s, i)]
         ELSE NoMatch
    ELSE IF Len(d) = 1
    THEN IF i <= Len(s) /\ Char(s, i) = d
         THEN [ok |-> TRUE, val |-> 0, end |-> i + 1]
         ELSE NoMatch
    ELSE IF d = "%d" /\ i <= Len(s) /\ Char(s, i) = " "
    THEN IF DigitAt(s, i + 1) >= 1
         THEN [ok |-> TRUE, val |-> DigitAt(s, i + 1), end |-> i + 2]
         ELSE NoMatch
    ELSE Matched(s, i, DirectiveWidth(d, DigitAt(s, i), DigitAt(s, i + 1),
                                      DigitsAt(s, i, i + 3)))

\* strptime filling a time of day left out with the last second of the day.
TimeDefaults_EndOfDay == [Y |-> 1900, m |-> 1, d |-> 1, H |-> 23, M |-> 59, S |-> 59]

\* The fields strptime starts from.
TimeDefaults == [Y |-> 1900, m |-> 1, d |-> 1, H |-> 0, M |-> 0, S |-> 0]

\* The fields with the number read for directive d.
WithField(fields, d, val) ==
    CASE d = "%Y" -> [fields EXCEPT !.Y = val]
      [] d = "%y" -> [fields EXCEPT !.Y = IF val < 69 THEN 2000 + val ELSE 1900 + val]
      [] d = "%m" -> [fields EXCEPT !.m = val]
      [] d = "%d" -> [fields EXCEPT !.d = val]
      [] d = "%H" -> [fields EXCEPT !.H = val]
      [] d = "%M" -> [fields EXCEPT !.M = val]
      [] d = "%S" -> [fields EXCEPT !.S = val]
      [] OTHER -> fields

RECURSIVE MatchFormat(_, _, _, _, _), MatchRest(_, _, _, _, _)

\* Element k of the format matched as m: the rest of the format goes on
\* behind it with the field it read.
MatchRest(fmt, k, s, fields, m) ==
    IF m.ok
    THEN MatchFormat(fmt, k + 1, s, m.end, WithField(fields, fmt[k], m.val))
    ELSE [ok |-> FALSE, fields |-> fields]

\* The format's elements from k on matched against s from i on; the whole of
\* s must be used up.  Gives the fields read.
MatchFormat(fmt, k, s, i, fields) ==
    IF k > Len(fmt)
    THEN [ok |-> i = Len(s) + 1, fields |-> fields]
    ELSE MatchRest(fmt, k, s, fields, MatchDirective(fmt[k], s, i))

IsLeap(y) == y % 4 = 0 /\ (y % 100 # 0 \/ y % 400 = 0)

DaysInMonth(y, m) ==
    IF m = 2 THEN (IF IsLeap(y) THEN 29 ELSE 28)
    ELSE IF m \in {4, 6, 9, 11} THEN 30 ELSE 31

\* The fields of a match must make a date and time (ValueError otherwise).
ValidFields(r) ==
    [ok |-> /\ r.ok
            /\ r.fields.Y >= 1
            /\ r.fields.d <= DaysInMonth(r.fields.Y, r.fields.m)
            /\ r.fields.S <= 59,
     fields |-> r.fields]

\* datetime.strptime(value, fmt): the format must match the whole value.
Strptime(value, fmt) == ValidFields(MatchFormat(fmt, 1, value, 1, TimeDefaults))

\* Days from 2000-01-01 to the day y-m-d of the Gregorian calendar.
DaysFromCivil(y, m, d) ==
    LET yy == IF m <= 2 THEN y - 1 ELSE y
        era == yy \div 400
        yoe == yy - era * 400
        mp == IF m > 2 THEN m - 3 ELSE m + 9
        doy == (153 * mp + 2) \div 5 + d - 1
        doe == yoe * 365 + yoe \div 4 - yoe \div 100 + doy
    IN  era * 146097 + doe - 730425

\* The datetime of the fields, in seconds from 2000-01-01 00:00:00.
DatetimeOf(f) ==
    PyDatetime(DaysFromCivil(f.Y, f.m, f.d) * 86400 + f.H * 3600 + f.M * 60 + f.S)

\* timedelta(hours=t.hour, minutes=t.minute, seconds=t.second)
TimedeltaOf(f) == PyTimedelta(f.H * 3600 + f.M * 60 + f.S)

\* The formats tried for a datetime, in order.
DatetimeFormats ==
    << <<"%Y", "-", "%m", "-", "%d">>,
       <<"%y", "-", "%m", "-", "%d">>,
       <<"%Y", "-", "%m", "-", "%d", " ", "%H", ":", "%M">>,
       <<"%y", "-", "%m", "-", "%d", " ", "%H", ":", "%M">>,
       <<"%Y", "-", "%m", "-", "%d", " ", "%H", ":", "%M", ":", "%S">>,
       <<"%y", "-", "%m", "-", "%d", " ", "%H", ":", "%M", ":", "%S">> >>

\* The formats tried for a timedelta, in order.
TimedeltaFormats ==
    << <<"%H", ":", "%M", ":", "%S">>,
       <<"%H", ":", "%M">> >>

\* strptime under the first format of the list that takes value.
Parsing(value, formats) ==
    FirstOk([k \in 1..Len(formats) |-> Strptime(value, formats[k])])

\* The datetime of a parsing, when a format took the value.
AsDatetime(r) == IF r.ok THEN Converted(DatetimeOf(r.fields)) ELSE NotConverted

\* The timedelta of a parsing, when a format took the value.
AsTimedelta(r) == IF r.ok THEN Converted(TimedeltaOf(r.fields)) ELSE NotConverted

\* The loop over the datetime formats.
ParseDatetime(value) == AsDatetime(Parsing(value, DatetimeFormats))

\* The loop over the timedelta formats.
ParseTimedelta(value) == AsTimedelta(Parsing(value, TimedeltaFormats))

\* The chain with float tried before int.
_parse_value_FloatFirst(value) ==
    FirstOk(<<ParseBool(value), ParseFloat(value), ParseInt(value),
              ParseDatetime(value), ParseTimedelta(value),
              Converted(PyStr(value))>>).v

\* QueryParser._parse_value(value): bool, int, float, datetime, timedelta in
\* this order, and the text itself when none takes it.
_parse_value(value) ==
    FirstOk(<<ParseBool(value), ParseInt(value), ParseFloat(value),
              ParseDatetime(value), ParseTimedelta(value),
              Converted(PyStr(value))>>).v

(***************************************************************************)
(* QueryParser: conditions and the query tree.                             *)
(***************************************************************************)
\* The first position at or after i of s that holds no \w character.
WordRunEnd(s, i) ==
    IF \E j \in i..Len(s) : ~IsWord(Char(s, j))
    THEN CHOOSE j \in i..Len(s) :
            ~IsWord(Char(s, j)) /\ \A k \in i..(j - 1) : IsWord(Char(s, k))
    ELSE Len(s) + 1

\* The operator found with the one-character alternatives tried first.
OperatorAt_ShortFirst(s, i) ==
    LET there == SelectSeq(<<EQ, LT, GT, NE, LE, GE>>,
                           LAMBDA op : /\ i + Len(op) - 1 <= Len(s)
                                       /\ SubSeq(s, i, i + Len(op) - 1) = op)
    IN  IF there = <<>> THEN "" ELSE there[1]

\* The alternatives of (=|!=|<=|>=|<|>), in the order the pattern tries them.
OperatorAlternatives == <<EQ, NE, LE, GE, LT, GT>>

\* The operator the pattern's group 2 matches at position i of s: the first
\* alternative that is there; "" when none is.
OperatorAt(s, i) ==
    LET there == SelectSeq(OperatorAlternatives,
                           LAMBDA op : /\ i + Len(op) - 1 <= Len(s)
                                       /\ SubSeq(s, i, i + Len(op) - 1) = op)
    IN  IF there = <<>> THEN "" ELSE there[1]

\* The end of what (.*) matches from position i: up to the next line break.
LineEnd(s, i) ==
    IF \E j \in i..Len(s) : Char(s, j) = "\n"
    THEN CHOOSE j \in i..Len(s) :
            Char(s, j) = "\n" /\ \A k \in i..(j - 1) : Char(s, k) # "\n"
    ELSE Len(s) + 1

\* What (.*) matches from position v of s.
RestOfLine(s, v) == SubSeq(s, v, LineEnd(s, v) - 1)

\* The groups of the match whose word ends before w and whose operator is
\* looked for at o.
ConditionGroups(s, w, o) ==
    [ok |-> w > 1 /\ OperatorAt(s, o) # "",
     field |-> SubSeq(s, 1, w - 1),
     operator |-> OperatorAt(s, o),
     value |-> RestOfLine(s, SpaceRunEnd(s, o + Len(OperatorAt(s, o))))]

\* re.match(r"(\w+)\s*(=|!=|<=|>=|<|>)\s*(.*)", s)
ConditionMatch(s) ==
    ConditionGroups(s, WordRunEnd(s, 1), SpaceRunEnd(s, WordRunEnd(s, 1)))

\* What a parsing step gives: the error raised ("" when none), its message,
\* and the node built.
Parsed(node) == [error |-> "", message |-> "", node |-> node]

Failed(error, message) ==
    [error |-> error, message |-> message, node |-> Query(<<>>, "-")]

\* The Condition of a match, or the ValueError of no match.
ConditionOf(condition_str, match) ==
    IF ~match.ok
    THEN Failed("ValueError", "Invalid condition format: " \o condition_str)
    ELSE Parsed(Condition(match.field, match.operator,
                          _parse_value(StripChars(match.value, {"'", "\""}))))

\* QueryParser._parse_condition(condition_str)
_parse_condition(condition_str) ==
    ConditionOf(condition_str, ConditionMatch(condition_str))

\* Query(conditions) if len(conditions) > 1 else conditions[0]
Group(conditions) ==
    IF Len(conditions) > 1 THEN Query(conditions, AND) ELSE conditions[1]

RECURSIVE ParseTokens(_, _, _, _), AddCondition(_, _, _, _, _)
RECURSIVE ParseTokens_AndSplits(_, _, _, _)

\* The loop with the two keywords' roles exchanged: AND closes the group and OR
\* is skipped.
ParseTokens_AndSplits(tokens, i, or_group, conditions) ==
    IF i > Len(tokens)
    THEN [error |-> "", message |-> "", or_group |-> or_group,
          conditions |-> conditions]
    ELSE IF Upper(tokens[i]) = AND
    THEN IF conditions # <<>>
         THEN ParseTokens_AndSplits(tokens, i + 1,
                                    Append(or_group, Group(conditions)), <<>>)
         ELSE ParseTokens_AndSplits(tokens, i + 1, or_group, conditions)
    ELSE IF Upper(tokens[i]) = OR
    THEN ParseTokens_AndSplits(tokens, i + 1, or_group, conditions)
    ELSE LET c == _parse_condition(tokens[i])
         IN  IF c.error # ""
             THEN [error |-> c.error, message |-> c.message, or_group |-> or_group,
                   conditions |-> conditions]
             ELSE ParseTokens_AndSplits(tokens, i + 1, or_group,
                                        Append(conditions, c.node))

\* conditions.append(self._parse_condition(token)) with c what
\* _parse_condition gave: its exception leaves the loop.
AddCondition(tokens, i, or_group, conditions, c) ==
    IF c.error # ""
    THEN [error |-> c.error, message |-> c.message, or_group |-> or_group,
          conditions |-> conditions]
    ELSE ParseTokens(tokens, i + 1, or_group, Append(conditions, c.node))

\* The loop of _parse_query over tokens[i..], with the two lists it fills.
ParseTokens(tokens, i, or_group, conditions) ==
    IF i > Len(tokens)
    THEN [error |-> "", message |-> "", or_group |-> or_group,
          conditions |-> conditions]
    ELSE IF Upper(tokens[i]) = OR
    THEN IF conditions # <<>>
         THEN ParseTokens(tokens, i + 1, Append(or_group, Group(conditions)), <<>>)
         ELSE ParseTokens(tokens, i + 1, or_group, conditions)
    ELSE IF Upper(tokens[i]) = AND
    THEN ParseTokens(tokens, i + 1, or_group, conditions)
    ELSE AddCondition(tokens, i, or_group, conditions, _parse_condition(tokens[i]))

\* The code behind the loop returning a lone Condition as it is.
Root_Unwrapped(loop) ==
    LET or_group == IF loop.conditions # <<>>
                    THEN Append(loop.or_group, Group(loop.conditions))
                    ELSE loop.or_group
    IN  IF loop.error # "" THEN Failed(loop.error, loop.message)
        ELSE IF Len(or_group) > 1 THEN Parsed(Query(or_group, OR))
        ELSE IF or_group = <<>> THEN Failed("IndexError", "list index out of range")
        ELSE Parsed(or_group[1])

\* The code behind the loop wrapping a lone group whatever it is.
Root_AlwaysWrapped(loop) ==
    LET or_group == IF loop.conditions # <<>>
                    THEN Append(loop.or_group, Group(loop.conditions))
                    ELSE loop.or_group
    IN  IF loop.error # "" THEN Failed(loop.error, loop.message)
        ELSE IF Len(or_group) > 1 THEN Parsed(Query(or_group, OR))
        ELSE IF or_group = <<>> THEN Failed("IndexError", "list index out of range")
        ELSE Parsed(Query(or_group, AND))

\* _parse_query behind its loop: the last group is closed and the root made.
Root(loop) ==
    LET or_group == IF loop.conditions # <<>>
                    THEN Append(loop.or_group, Group(loop.conditions))
                    ELSE loop.or_group
    IN  IF loop.error # "" THEN Failed(loop.error, loop.message)
        ELSE IF Len(or_group) > 1 THEN Parsed(Query(or_group, OR))
        ELSE IF or_group = <<>> THEN Failed("IndexError", "list index out of range")
        ELSE IF or_group[1].tag = "Condition" THEN Parsed(Query(or_group, AND))
        ELSE Parsed(or_group[1])

\* QueryParser._parse_query(tokens)
_parse_query(tokens) == Root(ParseTokens(tokens, 1, <<>>, <<>>))

\* QueryParser.parse(query_str)
parse(query_str) == _parse_query(_tokenize(query_str))

(***************************************************************************)
(* Condition.__str__ and Query.__str__: the text of a tree, with str() of  *)
(* each value.                                                             *)
(***************************************************************************)
RECURSIVE IntDigits(_)

\* The decimal digits of a natural number.
IntDigits(n) ==
    IF n < 10 THEN Char(AsciiDigits, n + 1)
    ELSE IntDigits(n \div 10) \o Char(AsciiDigits, (n % 10) + 1)

\* str(n) of an int
IntStr(n) == IF n < 0 THEN "-" \o IntDigits(-n) ELSE IntDigits(n)

\* A number under 100 in two digits (%02d).
Pad2(n) == IF n < 10 THEN "0" \o IntDigits(n) ELSE IntDigits(n)

\* A year in four digits (%04d).
Pad4(n) ==
    IF n < 10 THEN "000" \o IntDigits(n)
    ELSE IF n < 100 THEN "00" \o IntDigits(n)
    ELSE IF n < 1000 THEN "0" \o IntDigits(n)
    ELSE IntDigits(n)

\* The digits behind the point of a float held in hundredths.
FractionStr(frac) ==
    IF frac % 10 = 0 THEN IntDigits(frac \div 10) ELSE Pad2(frac)

\* str(x) of a float: the shortest decimal text of a number held in
\* hundredths; inf and nan for the floats kept by their text (the text of a
\* number written with an exponent or with more decimals is kept as it is).
FloatStr(v) ==
    IF v.s # ""
    THEN CASE Unsigned(v.s) \in {"inf", "infinity"} ->
                  (IF Sign(v.s) < 0 THEN "-inf" ELSE "inf")
           [] Unsigned(v.s) = "nan" -> "nan"
           [] OTHER -> v.s
    ELSE (IF v.n < 0 THEN "-" ELSE "")
            \o IntDigits((IF v.n < 0 THEN -v.n ELSE v.n) \div 100) \o "."
            \o FractionStr((IF v.n < 0 THEN -v.n ELSE v.n) % 100)

\* The year of the day `days` days from 2000-01-01.
YearOfDay(days) ==
    CHOOSE y \in (2000 + days \div 365 - 8)..(2000 + days \div 365 + 8) :
        DaysFromCivil(y, 1, 1) <= days /\ days < DaysFromCivil(y + 1, 1, 1)

\* The month of year y that day falls in.
MonthOfDay(y, days) ==
    CHOOSE m \in 1..12 :
        /\ DaysFromCivil(y, m, 1) <= days
        /\ days < DaysFromCivil(y, m, 1) + DaysInMonth(y, m)

\* date.isoformat(): YYYY-MM-DD
DateStr(days) ==
    Pad4(YearOfDay(days)) \o "-" \o Pad2(MonthOfDay(YearOfDay(days), days)) \o "-"
        \o Pad2(days - DaysFromCivil(YearOfDay(days),
                                     MonthOfDay(YearOfDay(days), days), 1) + 1)

\* HH:MM:SS of the seconds of a day.
ClockStr(secs) ==
    Pad2(secs \div 3600) \o ":" \o Pad2((secs % 3600) \div 60) \o ":" \o Pad2(secs % 60)

\* str(d) of a datetime without microseconds: isoformat(sep=" ").
DatetimeStr(seconds) ==
    DateStr(seconds \div 86400) \o " " \o ClockStr(seconds % 86400)

\* str(t) of a timedelta: [D day[s], ]H:MM:SS
TimedeltaStr(seconds) ==
    LET days == seconds \div 86400
        secs == seconds % 86400
    IN  (IF days = 0 THEN ""
         ELSE IntStr(days) \o (IF days \in {1, -1} THEN " day, " ELSE " days, "))
            \o IntDigits(secs \div 3600) \o ":" \o Pad2((secs % 3600) \div 60)
            \o ":" \o Pad2(secs % 60)

\* str(value), what f"{self.value}" puts into the text.
ValueStr(v) ==
    CASE v.kind = "str" -> v.s
      [] v.kind = "bool" -> (IF v.n = 1 THEN "True" ELSE "False")
      [] v.kind = "int" -> IntStr(v.n)
      [] v.kind = "float" -> FloatStr(v)
      [] v.kind = "datetime" -> DatetimeStr(v.n)
      [] v.kind = "timedelta" -> TimedeltaStr(v.n)
      [] v.kind = "date" -> DateStr(v.n)
      [] OTHER -> "None"

\* Condition.__str__
ConditionStr(c) == c.field \o " " \o c.operator \o " " \o ValueStr(c.value)

RECURSIVE NodeStr(_), JoinStr(_, _, _)

\* sep.join(str(queryable) for queryable in queryables), from child i.
JoinStr(sep, queryables, i) ==
    IF i > Len(queryables) THEN ""
    ELSE IF i = Len(queryables) THEN NodeStr(queryables[i])
    ELSE NodeStr(queryables[i]) \o sep \o JoinStr(sep, queryables, i + 1)

\* Query.__str__
QueryStr(q) == JoinStr(" " \o q.logic_operator \o " ", q.queryables, 1)

\* str(queryable)
NodeStr(node) ==
    IF node.tag = "Condition" THEN ConditionStr(node) ELSE QueryStr(node)

(***************************************************************************)
(* The inputs of the evaluation specification.                             *)
(***************************************************************************)
\* Largest number of nodes (Query and Condition objects) of a generated tree.
MaxNodes == 4

\* Two literals of each of the six kinds a Condition holds.
LiteralValues ==
    {PyStr("Alice"), PyStr("alice"), PyBool(TRUE), PyBool(FALSE),
     PyInt(1), PyInt(2), PyFloat(100), PyFloat(250),
     PyDatetime(1), PyDatetime(2), PyTimedelta(1), PyTimedelta(2)}

\* What the record's attribute may hold: the same values, a date, or None.
FieldValues == LiteralValues \cup {PyDate(1), None}

\* The records: one attribute, "attr"; the name "missing" is no attribute.
Items == {[attr |-> v] : v \in FieldValues}

\* Every Condition over the two names, the six operators and the literals.
AllConditions ==
    {Condition(f, op, v) : f \in {"attr", "missing"}, op \in ComparisonOperator,
                           v \in LiteralValues}

\* The leaves of the generated trees.
PoolConditions ==
    {Condition("attr", EQ, PyInt(1)), Condition("attr", GE, PyInt(2)),
     Condition("attr", LT, PyStr("Alice"))}

RECURSIVE QueryablesOfSize(_), ForestsOfSize(_)

\* The Queryables of exactly n nodes.
QueryablesOfSize(n) ==
    IF n = 0 THEN {}
    ELSE (IF n = 1 THEN PoolConditions ELSE {})
         \cup {Query(f, l) : f \in ForestsOfSize(n - 1), l \in LogicOperator}

\* The child lists of exactly m nodes in all.
ForestsOfSize(m) ==
    IF m = 0 THEN {<<>>}
    ELSE UNION {{<<t>> \o f : t \in QueryablesOfSize(k), f \in ForestsOfSize(m - k)} :
                k \in 1..m}

\* The Query trees of at most MaxNodes nodes.
Trees ==
    UNION {{t \in QueryablesOfSize(n) : t.tag = "Query"} : n \in 1..MaxNodes}

(***************************************************************************)
(* Spec: one evaluate() call on a Condition or on a Query tree.            *)
(***************************************************************************)
\* The parser has been given nothing.
ParserIdle ==
    /\ query_text = ""
    /\ fragments = <<>>
    /\ keywords = <<>>
    /\ parsed = Failed("pending", "")

\* What stands in for a value not yet computed.
Pending == PyValue("pending", 0, "")

\* _parse_value has been given nothing.
ValueIdle ==
    /\ literal = ""
    /\ coerced = Pending

\* No thread evaluates anything.
ThreadsIdle == threads = <<>>

\* No application runs.
AppIdle ==
    /\ cache = <<>>
    /\ jobs = <<>>
    /\ master = <<>>
    /\ details = None
    /\ input = ""
    /\ mounted = FALSE

\* filter_items has not been called.
FilterIdle ==
    /\ items = <<>>
    /\ generator = "none"
    /\ position = 0
    /\ received = <<>>
    /\ evaluated = <<>>
    /\ demands = 0

\* No evaluation is under way.
EvaluatorIdle ==
    /\ query = Query(<<>>, AND)
    /\ item = [attr |-> None]
    /\ outcome = "pending"
    /\ calls = <<>>

Init ==
    /\ query \in AllConditions \cup Trees
    /\ item \in Items
    /\ outcome = "pending"
    /\ calls = <<>>
    /\ ParserIdle
    /\ FilterIdle
    /\ ValueIdle
    /\ ThreadsIdle
    /\ AppIdle

\* condition.evaluate(item) is called on a lone Condition.
EvaluateCondition ==
    /\ outcome = "pending"
    /\ query.tag = "Condition"
    /\ outcome' = ConditionEvaluate(query, item)
    /\ calls' = <<<<>>>>
    /\ UNCHANGED <<query, item, parseVars, filterVars, valueVars, threadVars,
                   appVars>>

\* query.evaluate(item) is called on a Query tree.
EvaluateQuery ==
    /\ outcome = "pending"
    /\ query.tag = "Query"
    /\ LET r == Evaluate(query, item, <<>>)
       IN  /\ outcome' = r.out
           /\ calls' = r.calls
    /\ UNCHANGED <<query, item, parseVars, filterVars, valueVars, threadVars,
                   appVars>>

Next == EvaluateCondition \/ EvaluateQuery

Spec == Init /\ [][Next]_vars

(***************************************************************************)
(* SpecParse: one QueryParser.parse call on a query string written as       *)
(* condition fragments joined by AND / OR keywords.                        *)
(***************************************************************************)
\* Most condition fragments in a generated query string.
MaxConditions == 3

\* Well-formed condition fragments.
FragmentPool == {"id = 1", "name = Alice", "active = True"}

\* The keywords as they are written between two fragments.
KeywordPool == {" AND ", " and ", " OR ", "  Or  "}

RECURSIVE Join(_, _)

\* The fragments with the keywords between them.
Join(frags, kws) ==
    IF Len(frags) = 1 THEN frags[1]
    ELSE frags[1] \o kws[1] \o Join(Tail(frags), Tail(kws))

\* Fragments with the letters of a keyword inside a word of the field or of
\* the value, and the keywords written between them.
WordFragmentPool == {"brand = Sandor", "android = 1", "color = orange", "name = ORLANDO"}

WordKeywordPool == {" and ", " OR "}

\* Single conditions: each operator, written with and without blanks around
\* it, between a field and a value.
ConditionFields == {"id", "created_at"}

ConditionSpacings == {"", " ", "  "}

ConditionValues == {"100", "Alice", "2024-07-01"}

ConditionTexts ==
    {field \o before \o operator \o after \o value :
        field \in ConditionFields, operator \in ComparisonOperator,
        before \in ConditionSpacings, after \in ConditionSpacings,
        value \in ConditionValues}

\* Values in single and in double quotes that hold a keyword between blanks.
QuotedValues == {"rock and roll", "this OR that"}

QuotedTexts == {"name = " \o quote \o value \o quote :
                    quote \in {"'", "\""}, value \in QuotedValues}

\* Values written between quotes: plain ones, and ones that have a quote
\* character of their own at an end.
PlainValues == {"Alice", "100", "2024-07-01", "it's me"}

EdgeQuoteValues == {"\"Alice\"", "Jones'", "'n"}

QuoteTexts == {"name = " \o quote \o value \o quote :
                  quote \in {"", "'", "\""}, value \in PlainValues \cup EdgeQuoteValues}

\* Quoted values with blanks at their ends, and literals whose text is not
\* the text str() gives their value.
PaddedTexts == {"name = ' Alice '", "name = \"Bob \""}

RenderedTexts ==
    {"price = 1.50", "active = true", "duration = 1:30", "id = 007",
     "created_at = 24-06-03 10:00"}

\* Texts with a keyword where a fragment is due: between two keywords, or
\* behind the last one.
KeywordFragmentTexts ==
    {"id = 1 AND OR AND name = Alice", "id = 1 AND and",
     "id = 1 OR or OR name = Alice", "id = 1 AND AND AND name = Alice"}

\* Other inputs: nothing, blanks, keywords alone or at an end of the text, and
\* fragments that lack the field, the operator or the value.
RawTexts ==
    {"", " ", "   ", "OR", "AND", "and", "or", "AND OR", " OR ", " AND ",
     "id = 1 OR", "OR id = 1", "id = 1 AND", "id = 1 AND  OR name = Alice",
     "id = 1 OR  OR name = Alice", "id", "id =", "id = ", "id !=", "= 1",
     "id 1", "id == 1", "first-name = x", "first name = x", "$id = 1",
     "id = 1 AND name", "id = 1 OR name =", "name = Alice OR = 1",
     "id = 1 AND name Alice AND active = True"}

\* The texts handed to parse: up to MaxConditions fragments joined by
\* keywords, single conditions, quoted values, and the other inputs.
\* fragments and keywords say how a text was put together, and are empty
\* for a text that was not put together from well-formed fragments.
InitParse ==
    /\ \/ /\ \E n \in 1..MaxConditions :
                /\ fragments \in [1..n -> FragmentPool]
                /\ keywords \in [1..(n - 1) -> KeywordPool]
          /\ query_text = Join(fragments, keywords)
       \/ /\ \E n \in 1..2 :
                /\ fragments \in [1..n -> WordFragmentPool]
                /\ keywords \in [1..(n - 1) -> WordKeywordPool]
          /\ query_text = Join(fragments, keywords)
       \/ /\ query_text \in ConditionTexts \cup QuoteTexts \cup PaddedTexts
                               \cup RenderedTexts
          /\ fragments = <<query_text>>
          /\ keywords = <<>>
       \/ /\ query_text \in QuotedTexts \cup RawTexts \cup KeywordFragmentTexts
          /\ fragments = <<>>
          /\ keywords = <<>>
    /\ parsed = Failed("pending", "")
    /\ EvaluatorIdle
    /\ FilterIdle
    /\ ValueIdle
    /\ ThreadsIdle
    /\ AppIdle

\* QueryParser().parse(query_text) is called.
Parse ==
    /\ parsed.error = "pending"
    /\ parsed' = parse(query_text)
    /\ UNCHANGED <<query_text, fragments, keywords, evalVars, filterVars, valueVars, threadVars,
                   appVars>>

NextParse == Parse

SpecParse == InitParse /\ [][NextParse]_vars

(***************************************************************************)
(* SpecFilter: filter_items(query, items) and the consumer of the          *)
(* generator it returns.                                                   *)
(***************************************************************************)
\* Longest list handed to filter_items.
MaxItems == 4

\* The items of the lists; the same item may be in a list more than once.
FilterItems == {[attr |-> v] : v \in {PyInt(1), PyInt(2), PyStr("Alice"), None}}

\* The queries filtered by: one condition, and two conditions under OR.
FilterQueries ==
    {Query(<<c>>, AND) : c \in PoolConditions}
        \cup {Query(<<c, d>>, OR) : c \in PoolConditions, d \in PoolConditions}

\* The next() calls a consumer makes: enough to go through the longest list,
\* meet its end and ask again.
MaxDemands == MaxItems + 2

RECURSIVE Advance(_, _, _), Advance_TakeWhile(_, _, _), Advance_Restartable(_, _, _)

RECURSIVE Advance_SkipErrors(_, _, _)

\* The generator passing over an item whose evaluation raises.
Advance_SkipErrors(q, its, pos) ==
    IF pos = Len(its)
    THEN [kind |-> "StopIteration", position |-> pos, evaluated |-> <<>>]
    ELSE LET out == Evaluate(q, its[pos + 1], <<>>).out
         IN  IF out = RetTrue
             THEN [kind |-> "yield", position |-> pos + 1, evaluated |-> <<pos + 1>>]
             ELSE [Advance_SkipErrors(q, its, pos + 1)
                      EXCEPT !.evaluated = <<pos + 1>> \o @]

\* The generator ending at the first item the query does not match.
Advance_TakeWhile(q, its, pos) ==
    IF pos = Len(its)
    THEN [kind |-> "StopIteration", position |-> pos, evaluated |-> <<>>]
    ELSE LET out == Evaluate(q, its[pos + 1], <<>>).out
         IN  IF Raised(out)
             THEN [kind |-> out, position |-> pos + 1, evaluated |-> <<pos + 1>>]
             ELSE IF out = RetTrue
             THEN [kind |-> "yield", position |-> pos + 1, evaluated |-> <<pos + 1>>]
             ELSE [kind |-> "StopIteration", position |-> Len(its),
                   evaluated |-> <<pos + 1>>]

\* A generator that goes through the list again once it has met its end.
Advance_Restartable(q, its, pos) ==
    IF its = <<>>
    THEN [kind |-> "StopIteration", position |-> pos, evaluated |-> <<>>]
    ELSE LET at == (pos % Len(its)) + 1
             out == Evaluate(q, its[at], <<>>).out
         IN  IF Raised(out)
             THEN [kind |-> out, position |-> at, evaluated |-> <<at>>]
             ELSE IF out = RetTrue
             THEN [kind |-> "yield", position |-> at, evaluated |-> <<at>>]
             ELSE IF at = Len(its)
             THEN [kind |-> "StopIteration", position |-> at, evaluated |-> <<at>>]
             ELSE [Advance_Restartable(q, its, at) EXCEPT !.evaluated = <<at>> \o @]

\* (item for item in items if query.evaluate(item)) resumed with pos items
\* taken: it takes the next items in order and evaluates the query on each,
\* until one matches and is yielded, an evaluation raises, or the list ends.
\* evaluated lists the indexes of the items it evaluated.
Advance(q, its, pos) ==
    IF pos = Len(its)
    THEN [kind |-> "StopIteration", position |-> pos, evaluated |-> <<>>]
    ELSE LET out == Evaluate(q, its[pos + 1], <<>>).out
         IN  IF Raised(out)
             THEN [kind |-> out, position |-> pos + 1, evaluated |-> <<pos + 1>>]
             ELSE IF out = RetTrue
             THEN [kind |-> "yield", position |-> pos + 1, evaluated |-> <<pos + 1>>]
             ELSE [Advance(q, its, pos + 1) EXCEPT !.evaluated = <<pos + 1>> \o @]

\* datetime(Y, m, d, H, M, 0) and timedelta(hours=H, minutes=M) of the fixture.
At(Y, m, d, H, M) == DatetimeOf([Y |-> Y, m |-> m, d |-> d, H |-> H, M |-> M, S |-> 0])

Lasting(H, M) == TimedeltaOf([H |-> H, M |-> M, S |-> 0])

\* TestItem(id=..., name=..., active=..., factor=..., created_at=..., duration=...)
TestItem(id, name, active, factor, created_at, duration) ==
    [id |-> PyInt(id), name |-> PyStr(name), active |-> PyBool(active),
     factor |-> PyFloat(factor), created_at |-> created_at, duration |-> duration]

\* The four records of the filter test.
TestItems ==
    <<TestItem(1, "Alice", TRUE, 10000, At(2024, 6, 1, 18, 30), Lasting(1, 0)),
      TestItem(2, "Bob", FALSE, 123, At(2024, 6, 2, 18, 30), Lasting(1, 30)),
      TestItem(3, "Charlie", TRUE, -245, At(2024, 6, 3, 8, 30), Lasting(0, 45)),
      TestItem(4, "Doris", FALSE, 580, At(2024, 7, 1, 6, 30), Lasting(1, 0))>>

\* The query strings of the filter test.
TestQueryTexts ==
    {"active=True", "active=True AND factor>=0.0",
     "created_at <= 2024-06-03 OR duration < 1:00:00", "duration > 1:00:00"}

\* The filter is given a generated query and list, or the records of the
\* filter test and the Query parsed from one of its query strings.
InitFilter ==
    /\ \/ /\ query \in FilterQueries
          /\ \E n \in 0..MaxItems : items \in [1..n -> FilterItems]
          /\ query_text = ""
       \/ /\ query_text \in TestQueryTexts
          /\ query = parse(query_text).node
          /\ items = TestItems
    /\ generator = "none"
    /\ position = 0
    /\ received = <<>>
    /\ evaluated = <<>>
    /\ demands = 0
    /\ item = [attr |-> None]
    /\ outcome = "pending"
    /\ calls = <<>>
    /\ fragments = <<>>
    /\ keywords = <<>>
    /\ parsed = Failed("pending", "")
    /\ ValueIdle
    /\ ThreadsIdle
    /\ AppIdle

\* filter_items(query, items): the generator is made; nothing is evaluated.
CallFilterItems ==
    /\ generator = "none"
    /\ generator' = "suspended"
    /\ UNCHANGED <<items, position, received, evaluated, demands, evalVars, parseVars,
                   valueVars, threadVars,
                   appVars>>

\* What next() does to a suspended generator: it runs to its next yield, to
\* the exception of an evaluation, or to its end.
Resume ==
    LET r == Advance(query, items, position)
    IN  /\ position' = r.position
        /\ evaluated' = evaluated \o r.evaluated
        /\ generator' = IF r.kind = "yield" THEN "suspended"
                        ELSE IF r.kind = "StopIteration" THEN "exhausted"
                        ELSE r.kind
        /\ received' = IF r.kind = "yield" THEN Append(received, items[r.position])
                       ELSE received

\* next() on a generator that takes each item it evaluates out of the list.
NextItem_Consuming ==
    /\ generator # "none"
    /\ demands < MaxDemands
    /\ demands' = demands + 1
    /\ IF generator = "suspended"
       THEN LET r == Advance(query, items, 0)
            IN  /\ position' = 0
                /\ items' = SubSeq(items, r.position + 1, Len(items))
                /\ evaluated' = evaluated \o r.evaluated
                /\ generator' = IF r.kind = "yield" THEN "suspended"
                                ELSE IF r.kind = "StopIteration" THEN "exhausted"
                                ELSE r.kind
                /\ received' = IF r.kind = "yield"
                               THEN Append(received, items[r.position])
                               ELSE received
       ELSE UNCHANGED <<items, position, evaluated, generator, received>>
    /\ UNCHANGED <<evalVars, parseVars, valueVars, threadVars, appVars>>

\* next(generator), by the consumer of the generator.  A generator that has
\* ended, by its list's end or by an exception, raises StopIteration and
\* does nothing else.
NextItem ==
    /\ generator # "none"
    /\ demands < MaxDemands
    /\ demands' = demands + 1
    /\ IF generator = "suspended" THEN Resume
       ELSE UNCHANGED <<position, evaluated, generator, received>>
    /\ UNCHANGED <<items, evalVars, parseVars, valueVars, threadVars,
                   appVars>>

NextFilter == CallFilterItems \/ NextItem

SpecFilter == InitFilter /\ [][NextFilter]_vars

(***************************************************************************)
(* SpecValue: one QueryParser._parse_value call on a value text.           *)
(***************************************************************************)
\* Texts written like numbers: a sign, digits, a fraction or an exponent,
\* any of them left out.
NumberTexts ==
    {sign \o whole \o frac :
        sign \in {"", "-", "+"},
        whole \in {"", "0", "100", "1_0"},
        frac \in {"", ".", ".5", ".25", ".125", "e2"}}

\* Texts written like dates, with and without a time of day; some name no
\* day of the calendar or no time of the clock.
DateTexts ==
    {year \o "-" \o month \o "-" \o day \o time :
        year \in {"2024", "24"},
        month \in {"07", "2", "13"},
        day \in {"01", "30"},
        time \in {"", " 8:00", " 12:30:45", " 24:00"}}

\* Texts written like durations, booleans and plain strings.
OtherTexts ==
    {"8:00", "0:45", "1:30:00", "12:30:45", "25:00", "1:60", "23:59:60",
     "True", "true", "FALSE", "tRuE", " true", "truely",
     "Alice", "nan", "inf", " 12 ", "1 2", "2024-07-01T08:00"}

\* Durations written H:MM and H:MM:SS, of less and of more than a day.
DurationHours == {0, 1, 8, 23, 24, 25, 100}

DurationMinutes == {0, 30, 59}

DurationSeconds == {0, 45}

\* H:MM
HoursMinutes(h, m) == IntStr(h) \o ":" \o Pad2(m)

\* H:MM:SS
HoursMinutesSeconds(h, m, sec) == HoursMinutes(h, m) \o ":" \o Pad2(sec)

DurationTexts ==
    {HoursMinutes(h, m) : h \in DurationHours, m \in DurationMinutes}
        \cup {HoursMinutesSeconds(h, m, sec) :
                  h \in DurationHours, m \in DurationMinutes, sec \in DurationSeconds}

ValueTexts == NumberTexts \cup DateTexts \cup OtherTexts \cup DurationTexts

InitValue ==
    /\ literal \in ValueTexts
    /\ coerced = Pending
    /\ EvaluatorIdle
    /\ ParserIdle
    /\ FilterIdle
    /\ ThreadsIdle
    /\ AppIdle

\* QueryParser()._parse_value(literal) is called.
ParseValue ==
    /\ coerced = Pending
    /\ coerced' = _parse_value(literal)
    /\ UNCHANGED <<literal, evalVars, parseVars, filterVars, threadVars, appVars>>

NextValue == ParseValue

SpecValue == InitValue /\ [][NextValue]_vars

(***************************************************************************)
(* SpecThreads: several threads call query.evaluate, each on a record of   *)
(* its own, and the scheduler interleaves them.  A thread's step is one    *)
(* evaluate() call of a Condition, one entry into a Query, or one return   *)
(* into the all()/any() loop of a Query; the frames of its calls and the   *)
(* generators of its loops are objects of the thread, the tree is shared.  *)
(***************************************************************************)
\* Threads evaluating at once.
MaxThreads == 2

\* The trees evaluated: those filtered by, and an AND group under OR.
ThreadQueries ==
    FilterQueries
        \cup {Query(<<Query(<<Condition("attr", GE, PyInt(1)),
                              Condition("attr", NE, PyInt(1))>>, AND),
                       Condition("attr", EQ, PyStr("Alice"))>>, OR)}

\* No call has returned to the frame on top.
NoResult == "-"

\* A thread before its query.evaluate(item) call.
Thread(it) == [item |-> it, frames |-> <<>>, ret |-> NoResult, out |-> "running"]

\* node.evaluate(item) is called by thread th: a Condition answers at once, a
\* Query starts its all() or any() over a generator at the first child.
Called(th, node) ==
    IF node.tag = "Condition"
    THEN [th EXCEPT !.ret = ConditionEvaluate(node, th.item)]
    ELSE IF node.logic_operator \in {AND, OR}
    THEN [th EXCEPT !.frames = Append(@, [node |-> node, i |-> 1])]
    ELSE [th EXCEPT !.ret = RetFalse]

\* The frame on top ends and hands ret to its caller.
Returned(th, ret) ==
    [th EXCEPT !.frames = SubSeq(@, 1, Len(@) - 1), !.ret = ret]

\* The loop of the frame on top asks its generator for the next child:
\* the child is evaluated, or the children are used up and all() is True,
\* any() False.
NextChild(th, f) ==
    IF f.i > Len(f.node.queryables)
    THEN Returned(th, IF f.node.logic_operator = AND THEN RetTrue ELSE RetFalse)
    ELSE Called(th, f.node.queryables[f.i])

\* A child's result comes back to the loop of the frame on top: an
\* exception leaves the frame, a result that settles all() or any() is
\* returned, any other one lets the loop go on to the next child.
ChildDone(th, f) ==
    IF Raised(th.ret) THEN Returned(th, th.ret)
    ELSE IF th.ret = (IF f.node.logic_operator = AND THEN RetTrue ELSE RetFalse)
    THEN [th EXCEPT !.frames[Len(th.frames)].i = f.i + 1, !.ret = NoResult]
    ELSE Returned(th, th.ret)

\* One step of a thread evaluating tree q.
Stepped(th, q) ==
    IF th.frames = <<>>
    THEN IF th.ret = NoResult THEN Called(th, q) ELSE [th EXCEPT !.out = th.ret]
    ELSE IF th.ret = NoResult THEN NextChild(th, th.frames[Len(th.frames)])
    ELSE ChildDone(th, th.frames[Len(th.frames)])

\* The position among a Query's children kept in the Query, for all threads:
\* the step of thread t moves the frame on top of every thread to t's child.
Step_SharedCursor(ts, t) ==
    LET mine == Stepped(ts[t], query)
    IN  [u \in DOMAIN ts |->
            IF u = t THEN mine
            ELSE IF mine.frames # <<>> /\ ts[u].frames # <<>>
            THEN [ts[u] EXCEPT !.frames[Len(ts[u].frames)].i
                                    = mine.frames[Len(mine.frames)].i]
            ELSE ts[u]]

\* The threads after a step of thread t: nothing of another thread changes.
Step(ts, t) == [ts EXCEPT ![t] = Stepped(ts[t], query)]

\* One parsed tree, and threads with a different record each.
InitThreads ==
    /\ query \in ThreadQueries
    /\ \E its \in [1..MaxThreads -> FilterItems] :
          /\ \A t, u \in 1..MaxThreads : t # u => its[t] # its[u]
          /\ threads = [t \in 1..MaxThreads |-> Thread(its[t])]
    /\ item = [attr |-> None]
    /\ outcome = "pending"
    /\ calls = <<>>
    /\ ParserIdle
    /\ FilterIdle
    /\ ValueIdle
    /\ AppIdle

\* The scheduler lets a thread that has not finished take its next step.
ThreadStep ==
    /\ \E t \in DOMAIN threads :
          /\ threads[t].out = "running"
          /\ threads' = Step(threads, t)
    /\ UNCHANGED <<evalVars, parseVars, filterVars, valueVars, appVars>>

NextThreads == ThreadStep

SpecThreads == InitThreads /\ [][NextThreads]_vars

(***************************************************************************)
(* SpecApp: the JobSpy application over a client that holds some jobs.     *)
(* The user submits filter texts, resets the filter and selects rows.      *)
(***************************************************************************)
\* Job(id=..., name=..., status=..., created_at=..., duration=...)
Job(id, name, status, created_at, duration) ==
    [id |-> PyInt(id), name |-> PyStr(name), status |-> PyStr(status),
     created_at |-> created_at, duration |-> duration]

\* The jobs a client may hold, in the order they were loaded; they were not
\* created in that order.
JobPool ==
    <<Job(1, "build", "failed", At(2024, 6, 3, 8, 30), Lasting(0, 45)),
      Job(2, "test", "completed", At(2024, 6, 1, 18, 30), Lasting(1, 0)),
      Job(3, "deploy", "failed", At(2024, 6, 2, 18, 30), Lasting(1, 30)),
      Job(4, "lint", "running", At(2024, 7, 1, 6, 30), None)>>

\* The texts a user submits: filters every job can be evaluated on, one that
\* raises on every job, one that is no query, and the empty text.
SubmittedTexts ==
    {"status = failed", "status = completed OR status = running",
     "name = build AND status = failed", "status = 1", "status", ""}

RECURSIVE Sorted(_)

\* The job put into a list sorted by created_at, behind its equals.
Inserted(job, list) ==
    LET before == SelectSeq(list, LAMBDA j : j.created_at.n <= job.created_at.n)
        behind == SelectSeq(list, LAMBDA j : j.created_at.n > job.created_at.n)
    IN  before \o <<job>> \o behind

\* sorted(jobs, key=lambda job: job.created_at)
Sorted(list) ==
    IF list = <<>> THEN <<>>
    ELSE Inserted(list[Len(list)], Sorted(SubSeq(list, 1, Len(list) - 1)))

\* client.query_jobs(): every job of the cache, sorted.
AllJobs == Sorted(cache)

\* client.query_jobs(query): sorted() consumes the generator of filter_items;
\* an exception of an evaluation comes out of the call.
query_jobs(q) ==
    IF \E k \in 1..Len(cache) : Raised(Evaluate(q, cache[k], <<>>).out)
    THEN [error |-> TRUE, jobs |-> <<>>]
    ELSE [error |-> FALSE,
          jobs |-> Sorted(SelectSeq(cache,
                                    LAMBDA j : Evaluate(q, j, <<>>).out = RetTrue))]

\* display_jobs(list): the table is cleared and filled, and the details pane
\* shows the first job, if there is one.
display_jobs(list) ==
    /\ master' = list
    /\ details' = IF list = <<>> THEN details ELSE list[1]

InitApp ==
    /\ \E chosen \in SUBSET (1..Len(JobPool)) :
          cache = SelectSeq(JobPool, LAMBDA j : j.id.n \in chosen)
    /\ jobs = <<>>
    /\ master = <<>>
    /\ details = None
    /\ input = ""
    /\ mounted = FALSE
    /\ EvaluatorIdle
    /\ ParserIdle
    /\ FilterIdle
    /\ ValueIdle
    /\ ThreadsIdle

\* on_mount: the table gets its columns and every job of the client.
on_mount ==
    /\ ~mounted
    /\ mounted' = TRUE
    /\ jobs' = AllJobs
    /\ display_jobs(AllJobs)
    /\ UNCHANGED <<cache, input, evalVars, parseVars, filterVars, valueVars, threadVars>>

\* action_reset_filter: the input is emptied and display_jobs(self.jobs) called.
action_reset_filter ==
    /\ mounted
    /\ input' = ""
    /\ display_jobs(jobs)
    /\ UNCHANGED <<cache, jobs, mounted, evalVars, parseVars, filterVars, valueVars,
                   threadVars>>

\* apply_filter(filter), run to its end: the jobs the query matches, or all
\* jobs for the empty text, become self.jobs and are displayed; an exception
\* of the query leaves the method before anything is assigned.
\* parsed_filter is what QueryParser().parse(filter) gives.
Assigned(result) ==
    IF result.error THEN UNCHANGED <<jobs, master, details>>
    ELSE jobs' = result.jobs /\ display_jobs(result.jobs)

apply_filter(filter, parsed_filter) ==
    IF filter = ""
    THEN jobs' = AllJobs /\ display_jobs(AllJobs)
    ELSE Assigned(query_jobs(parsed_filter.node))

\* The user types a text and submits it: handle_input_submission applies
\* the filter when the validation result says valid.  An empty text is valid
\* by valid_empty; whether the input widget hands out a validation result for
\* it is left open, so it is applied or not.
\* FilterValidator.validate says valid when the text parses.
Submitted(value, parsed_filter) ==
    \/ /\ value = "" \/ parsed_filter.error = ""
       /\ apply_filter(value, parsed_filter)
    \/ /\ value = "" \/ parsed_filter.error # ""
       /\ UNCHANGED <<jobs, master, details>>

handle_input_submission ==
    /\ mounted
    /\ \E value \in SubmittedTexts :
          /\ input' = value
          /\ Submitted(value, parse(value))
    /\ UNCHANGED <<cache, mounted, evalVars, parseVars, filterVars, valueVars, threadVars>>

\* on_data_table_row_selected: the details pane shows self.jobs[cursor_row].
on_data_table_row_selected ==
    /\ mounted
    /\ \E cursor_row \in 1..Len(master) :
          /\ cursor_row <= Len(jobs)
          /\ details' = jobs[cursor_row]
    /\ UNCHANGED <<cache, jobs, master, input, mounted, evalVars, parseVars, filterVars,
                   valueVars, threadVars>>

NextApp ==
    \/ on_mount
    \/ handle_input_submission
    \/ action_reset_filter
    \/ on_data_table_row_selected

SpecApp == InitApp /\ [][NextApp]_vars

(***************************************************************************)
(* Properties of the evaluator.                                            *)
(***************************************************************************)
Done == outcome # "pending"

\* The runtime value of the field the Condition under evaluation names, and
\* whether the record has it at all.
FieldPresent == query.field \in DOMAIN item

FieldValue == item[query.field]

SixKinds == {"str", "bool", "int", "float", "datetime", "timedelta"}

OrderingOperators == {LT, GT, LE, GE}

Min(S) == CHOOSE x \in S : \A y \in S : x <= y

\* What child i of the root gives when it is evaluated on its own.
ChildOutcome(i) == Evaluate(query.queryables[i], item, <<i>>).out

\* The direct children of the root whose evaluate() was called, in call order.
ChildrenEvaluated ==
    LET top == SelectSeq(calls, LAMBDA p : Len(p) = 1)
    IN  [j \in 1..Len(top) |-> top[j][1]]

\* What a short-circuiting evaluation of the root must look like, where
\* `goesOn` is the child result that lets the loop continue and `atEnd` the
\* result when every child let it continue.
ShortCircuits(goesOn, atEnd) ==
    LET n == Len(query.queryables)
        stops == {i \in 1..n : ChildOutcome(i) # goesOn}
        last == IF stops = {} THEN n ELSE Min(stops)
    IN  /\ ChildrenEvaluated = [i \in 1..last |-> i]
        /\ \A j \in 1..Len(calls) : calls[j] # <<>> => calls[j][1] <= last
        /\ outcome = IF stops = {} THEN atEnd ELSE ChildOutcome(last)

\* C2: an AND Query evaluates its children in list order up to and including
\* the first child that is false or raises, evaluates none after it, and gives
\* that child's result (False, or the error); it gives True when all are true.
AndShortCircuit ==
    (Done /\ query.tag = "Query" /\ query.logic_operator = AND)
        => ShortCircuits(RetTrue, RetTrue)

\* An AND of a false child and a child that would raise has returned False.
AndShortCircuitWitness ==
    /\ Done /\ query.tag = "Query" /\ query.logic_operator = AND
    /\ Len(query.queryables) = 2
    /\ ChildOutcome(1) = RetFalse
    /\ Raised(ChildOutcome(2))
    /\ outcome = RetFalse
    /\ calls = << <<>>, <<1>> >>

\* C3: an OR Query evaluates its children in list order up to and including
\* the first child that is true or raises, evaluates none after it, and gives
\* that child's result (True, or the error); it gives False only when every
\* child was false.
OrShortCircuit ==
    (Done /\ query.tag = "Query" /\ query.logic_operator = OR)
        => /\ ShortCircuits(RetFalse, RetFalse)
           /\ outcome = RetFalse
                => \A i \in 1..Len(query.queryables) : ChildOutcome(i) = RetFalse

\* An OR of a true child and a child that would raise has returned True.
OrShortCircuitWitness ==
    /\ Done /\ query.tag = "Query" /\ query.logic_operator = OR
    /\ Len(query.queryables) = 2
    /\ ChildOutcome(1) = RetTrue
    /\ Raised(ChildOutcome(2))
    /\ outcome = RetTrue
    /\ calls = << <<>>, <<1>> >>

\* C4: a Condition on a field that the record lacks, or whose value is None,
\* evaluates to False and raises nothing, whatever its operator and literal.
MissingFieldIsFalse ==
    (Done /\ query.tag = "Condition" /\ (~FieldPresent \/ FieldValue = None))
        => outcome = RetFalse

\* A None-valued field met a Condition whose operator and literal kind would
\* both be errors on a string or a number, and the result is False.
MissingFieldWitness ==
    /\ Done /\ query.tag = "Condition"
    /\ FieldPresent /\ FieldValue = None
    /\ query.operator = LT /\ query.value.kind = "bool"
    /\ outcome = RetFalse

\* C5: on a non-null field of one of the six kinds, a literal of any other of
\* the six kinds raises TypeMismatchError.
StrictKindEquality ==
    (/\ Done /\ query.tag = "Condition" /\ FieldPresent
     /\ FieldValue.kind \in SixKinds
     /\ query.value.kind # FieldValue.kind)
        => outcome = "TypeMismatchError"

\* C6: with a non-null field and a literal of the field's own kind,
\* InvalidOperatorError is raised exactly for <, >, <=, >= on a string or
\* boolean field; on an integer, float, timestamp or duration field it is
\* never raised.
OperatorPolicy ==
    (Done /\ query.tag = "Condition" /\ FieldPresent /\ FieldValue.kind \in SixKinds)
        => /\ query.value.kind = FieldValue.kind
                => (outcome = "InvalidOperatorError"
                        <=> /\ query.operator \in OrderingOperators
                            /\ FieldValue.kind \in {"str", "bool"})
           /\ FieldValue.kind \in {"int", "float", "datetime", "timedelta"}
                => outcome # "InvalidOperatorError"

\* name < "Alice" on a string field has raised InvalidOperatorError.
OperatorPolicyWitness ==
    /\ Done /\ query.tag = "Condition" /\ FieldPresent
    /\ FieldValue.kind = "str" /\ query.value.kind = "str"
    /\ query.operator = LT
    /\ outcome = "InvalidOperatorError"

\* C7: with a non-null field, a literal of the field's kind and a legal
\* operator, the result is (field value OP literal), the field on the left;
\* for a literal equal to the field value that is True for =, <=, >= and
\* False for !=, <, >; strings are equal only when they are the same text.
ComparisonResult ==
    (/\ Done /\ query.tag = "Condition" /\ FieldPresent
     /\ FieldValue.kind \in SixKinds
     /\ query.value.kind = FieldValue.kind
     /\ ~(query.operator \in OrderingOperators /\ FieldValue.kind \in {"str", "bool"}))
        => LET op == query.operator
               same == FieldValue.n = query.value.n /\ FieldValue.s = query.value.s
               less == FieldValue.n < query.value.n
               more == FieldValue.n > query.value.n
           IN  /\ outcome \in {RetTrue, RetFalse}
               /\ outcome = RetTrue
                    <=> \/ op = EQ /\ same
                        \/ op = NE /\ ~same
                        \/ op = LT /\ less
                        \/ op = GT /\ more
                        \/ op = LE /\ (less \/ same)
                        \/ op = GE /\ (more \/ same)
               /\ FieldValue = query.value
                    => (outcome = RetTrue <=> op \in {EQ, LE, GE})

\* 1 < 2 with the field as the left operand: the field holds 1, the literal
\* is 2, and the result is True.
ComparisonResultWitness ==
    /\ Done /\ query.tag = "Condition" /\ FieldPresent
    /\ FieldValue = PyInt(1) /\ query.value = PyInt(2)
    /\ query.operator = LT
    /\ outcome = RetTrue

\* C8: evaluate returns a boolean or raises TypeMismatchError or
\* InvalidOperatorError, and nothing else.
ClosedOutcomeSet ==
    Done => outcome \in {RetTrue, RetFalse, "TypeMismatchError", "InvalidOperatorError"}

\* C9: a Query without children evaluates to True under AND and to False
\* under OR, for every record.
IdentityLaws ==
    (Done /\ query.tag = "Query" /\ query.queryables = <<>>)
        => outcome = IF query.logic_operator = AND THEN RetTrue ELSE RetFalse

\* An empty AND Query has been evaluated to True.
IdentityLawsWitness ==
    /\ Done /\ query.tag = "Query" /\ query.queryables = <<>>
    /\ query.logic_operator = AND
    /\ outcome = RetTrue

\* C26: order of checks in Condition.evaluate.  The null/absent check comes
\* first, then the kind check, then the operator check: a Condition on an
\* absent or None field is False whatever its literal and operator; one
\* whose literal kind differs from the field's kind and whose operator is
\* illegal for the field's kind (name < 1 on a string field) raises
\* TypeMismatchError; and InvalidOperatorError is raised only when the kinds
\* match (Condition("name", LT, "Alice")).
OrderOfChecks ==
    (Done /\ query.tag = "Condition")
        => /\ (~FieldPresent \/ FieldValue = None) => outcome = RetFalse
           /\ (/\ FieldPresent
               /\ FieldValue.kind \in SixKinds
               /\ query.value.kind # FieldValue.kind
               /\ query.operator \notin VALID_OPERATOR_MAP[FieldValue.kind])
                 => outcome = "TypeMismatchError"
           /\ outcome = "InvalidOperatorError"
                 => /\ FieldPresent
                    /\ query.value.kind = FieldValue.kind
                    /\ query.operator \notin VALID_OPERATOR_MAP[FieldValue.kind]

\* attr < 1 has been evaluated on a record whose attr is a string.
OrderOfChecksWitness ==
    /\ Done
    /\ query = Condition("attr", LT, PyInt(1))
    /\ item = [attr |-> PyStr("Alice")]
    /\ outcome = "TypeMismatchError"

(***************************************************************************)
(* Properties of the parser.                                               *)
(***************************************************************************)
ParseDone == parsed.error # "pending"

\* The Condition fragment i of the text stands for.
Leaf(i) == _parse_condition(fragments[i]).node

\* Whether the keyword written after fragment i is an OR.
IsOrAfter(i) == Upper(Strip(keywords[i])) = OR

\* The fragments that open an OR-separated group, in textual order: the
\* first, and each one written right after an OR.
GroupStarts ==
    SelectSeq([i \in 1..Len(fragments) |-> i], LAMBDA i : i = 1 \/ IsOrAfter(i - 1))

\* The j-th OR-separated group: a bare Condition when it is one fragment, a
\* flat AND Query of its fragments otherwise.
GroupNode(j) ==
    LET first == GroupStarts[j]
        last == IF j < Len(GroupStarts) THEN GroupStarts[j + 1] - 1
                ELSE Len(fragments)
    IN  IF first = last THEN Leaf(first)
        ELSE Query([i \in 1..(last - first + 1) |-> Leaf(first + i - 1)], AND)

\* C1: AND binds tighter than OR.  For a text of two or more well-formed
\* conditions joined by AND / OR keywords, parse succeeds; with two or more
\* OR-separated groups it gives the OR Query of the groups in textual order,
\* each a flat AND Query of its conditions or, for a single condition, the
\* bare Condition; with one group it gives the flat AND Query of all the
\* conditions.  "id = 1 OR name = Alice AND active = True" gives
\* Query(OR, [id = 1, Query(AND, [name = Alice, active = True])]).
AndBindsTighter ==
    (ParseDone /\ Len(fragments) >= 2)
        => /\ parsed.error = ""
           /\ parsed.node =
                IF Len(GroupStarts) >= 2
                THEN Query([j \in 1..Len(GroupStarts) |-> GroupNode(j)], OR)
                ELSE Query([i \in 1..Len(fragments) |-> Leaf(i)], AND)
           /\ query_text = "id = 1 OR name = Alice AND active = True"
                => parsed.node =
                     Query(<<Condition("id", EQ, PyInt(1)),
                             Query(<<Condition("name", EQ, PyStr("Alice")),
                                     Condition("active", EQ, PyBool(TRUE))>>, AND)>>,
                           OR)

\* "name = Alice AND active = True OR id = 1" has been parsed into the OR of
\* an AND group and a bare Condition.
AndBindsTighterWitness ==
    /\ ParseDone
    /\ query_text = "name = Alice AND active = True OR id = 1"
    /\ parsed.node =
         Query(<<Query(<<Condition("name", EQ, PyStr("Alice")),
                         Condition("active", EQ, PyBool(TRUE))>>, AND),
                 Condition("id", EQ, PyInt(1))>>, OR)

\* C13: single-condition wrapping.  parse of a text that is one well-formed
\* condition gives the AND Query whose only child is that Condition: "id = 100"
\* gives Query([Condition(id, EQ, 100)]).
SingleConditionWrapped ==
    (ParseDone /\ Len(fragments) = 1)
        => /\ parsed.error = ""
           /\ parsed.node = Query(<<Leaf(1)>>, AND)
           /\ parsed.node.queryables[1].tag = "Condition"
           /\ query_text = "id = 100"
                => parsed.node = Query(<<Condition("id", EQ, PyInt(100))>>, AND)

\* "created_at >= 2024-07-01" has been parsed into a Query around its Condition.
SingleConditionWrappedWitness ==
    /\ ParseDone
    /\ query_text = "created_at >= 2024-07-01"
    /\ parsed.node.tag = "Query"
    /\ parsed.node.logic_operator = AND
    /\ Len(parsed.node.queryables) = 1
    /\ parsed.node.queryables[1].field = "created_at"

\* The text is well-formed fragments that make one OR-separated group.
OneGroup == Len(fragments) >= 1 /\ Len(GroupStarts) = 1

\* C14 as stated: when the text has only one OR-separated group, parse
\* returns that group itself: the bare Condition if the group is a single
\* condition, the AND Query if it is an AND run.
SingleGroupUnwrapped ==
    (ParseDone /\ OneGroup)
        => /\ parsed.error = ""
           /\ parsed.node = GroupNode(1)

\* C14 as amended: when the text has only one OR-separated group, parse
\* returns an AND Query: the flat AND Query of the run as it is if the group
\* is an AND run, and the AND Query whose only child is the Condition if the
\* group is a single condition.
SingleGroupReturned ==
    (ParseDone /\ OneGroup)
        => /\ parsed.error = ""
           /\ parsed.node.tag = "Query"
           /\ parsed.node.logic_operator = AND
           /\ parsed.node.queryables = [i \in 1..Len(fragments) |-> Leaf(i)]

\* An AND run of three conditions has been returned as one flat AND Query.
SingleGroupReturnedWitness ==
    /\ ParseDone
    /\ query_text = "id = 1 AND name = Alice and active = True"
    /\ parsed.node = Query(<<Condition("id", EQ, PyInt(1)),
                             Condition("name", EQ, PyStr("Alice")),
                             Condition("active", EQ, PyBool(TRUE))>>, AND)

\* The message of the ValueError _parse_condition raises for a fragment.
InvalidCondition(fragment) == "Invalid condition format: " \o fragment

\* C15: parse failure taxonomy.  For every input text, texts of blanks only
\* or of keywords only included, parse either returns a complete Query or
\* raises the syntax error carrying the offending fragment; it fails with no
\* other kind of error.
ParseFailureTaxonomy ==
    ParseDone
        => \/ /\ parsed.error = ""
              /\ parsed.node.tag = "Query"
              /\ parsed.node.queryables # <<>>
           \/ /\ parsed.error = "ValueError"
              /\ \E i \in 1..Len(_tokenize(query_text)) :
                    parsed.message = InvalidCondition(_tokenize(query_text)[i])

\* Texts holding a malformed fragment, each with the fragment at fault: no
\* comparison operator, no value behind the operator, a field that is not
\* identifier-like.
NoOperatorTexts ==
    {<<"id", "id">>, <<"id 1", "id 1">>, <<"id = 1 AND name", "name">>}

NoValueTexts ==
    {<<"id =", "id =">>, <<"id = ", "id =">>, <<"id !=", "id !=">>,
     <<"id = 1 OR name =", "name =">>}

BadFieldTexts ==
    {<<"= 1", "= 1">>, <<"first-name = x", "first-name = x">>,
     <<"first name = x", "first name = x">>, <<"$id = 1", "$id = 1">>}

\* C16: malformed fragment rejection.  parse fails with the syntax error
\* naming the fragment whenever a fragment has no comparison operator, has no
\* value behind the operator ("id =") or has a field that is not
\* identifier-like.
MalformedFragmentRejected ==
    \A t \in NoOperatorTexts \cup NoValueTexts \cup BadFieldTexts :
        (ParseDone /\ query_text = t[1])
            => /\ parsed.error = "ValueError"
               /\ parsed.message = InvalidCondition(t[2])

\* C17: quoted literals are opaque to the tokenizer.  A keyword between blanks
\* inside a single- or double-quoted value (name = 'rock and roll') does not
\* split the fragment: parse yields one Condition whose value is the whole
\* quoted text.
QuotedLiteralOpaque ==
    \A q \in {"'", "\""}, v \in QuotedValues :
        (ParseDone /\ query_text = "name = " \o q \o v \o q)
            => /\ Len(_tokenize(query_text)) = 1
               /\ parsed.error = ""
               /\ Len(parsed.node.queryables) = 1
               /\ parsed.node.queryables[1].tag = "Condition"
               /\ parsed.node.queryables[1].field = "name"
               /\ parsed.node.queryables[1].value \in {PyStr(q \o v \o q), PyStr(v)}

\* C18: empty input.  parse("") has an empty token sequence and returns a
\* Query with no children instead of raising.
EmptyInputEmptyQuery ==
    (ParseDone /\ query_text = "")
        => /\ _tokenize(query_text) = <<>>
           /\ parsed.error = ""
           /\ parsed.node.tag = "Query"
           /\ parsed.node.queryables = <<>>

\* The keywords of the text in upper case, blanks kept.
UpperKeywords == [i \in 1..Len(keywords) |-> Upper(keywords[i])]

\* C19: keyword matching is case-insensitive and whole-word.  AND and OR in
\* any letter case between blanks give the parse tree their upper-case form
\* gives, and the letters of a keyword inside a longer word of a field or of a
\* value never split a fragment: the tokens are the fragments and the
\* keywords written between them.
KeywordsAnyCaseWholeWord ==
    (ParseDone /\ Len(fragments) >= 1)
        => /\ Len(_tokenize(query_text)) = 2 * Len(fragments) - 1
           /\ \A i \in 1..Len(fragments) :
                 _tokenize(query_text)[2 * i - 1] = fragments[i]
           /\ \A i \in 1..Len(keywords) :
                 /\ _tokenize(query_text)[2 * i] = Strip(keywords[i])
                 /\ Upper(_tokenize(query_text)[2 * i]) \in {"AND", "OR"}
           /\ parsed = parse(Join(fragments, UpperKeywords))

\* Two fragments with keyword letters inside their words, joined by a
\* lower-case keyword, have been parsed into the two Conditions of an AND run.
KeywordsAnyCaseWholeWordWitness ==
    /\ ParseDone
    /\ query_text = "brand = Sandor and color = orange"
    /\ parsed.node = Query(<<Condition("brand", EQ, PyStr("Sandor")),
                             Condition("color", EQ, PyStr("orange"))>>, AND)

\* C20: operator recognition.  For each of the six symbols a fragment
\* `field OP value`, written with or without blanks around OP, parses to the
\* Condition with that operator and the same field and value: <=, >= and !=
\* are never read as a shorter operator with "=" at the head of the value.
OperatorRecognised ==
    \A field \in ConditionFields, operator \in ComparisonOperator,
       before \in ConditionSpacings, after \in ConditionSpacings,
       value \in ConditionValues :
        (ParseDone /\ query_text = field \o before \o operator \o after \o value)
            => /\ parsed.error = ""
               /\ parsed.node.queryables[1].operator = operator
               /\ parsed.node.queryables[1].value.s # "=" \o value
               /\ parsed.node
                    = Query(<<Condition(field, operator, _parse_value(value))>>, AND)

\* "id<=100", written without blanks, has been parsed into id <= 100.
OperatorRecognisedWitness ==
    /\ ParseDone
    /\ query_text = "id<=100"
    /\ parsed.node = Query(<<Condition("id", LE, PyInt(100))>>, AND)

\* C21: quote stripping.  A value written inside matching single or double
\* quotes parses to the Condition of the same value written without quotes,
\* and nothing but the surrounding quotes is removed from the value: the
\* Condition's value is the coercion of what stands between the quotes.
QuotesStripped ==
    \A quote \in {"'", "\""}, value \in PlainValues \cup EdgeQuoteValues :
        (ParseDone /\ query_text = "name = " \o quote \o value \o quote)
            => /\ parsed.error = ""
               /\ parsed.node = Query(<<Condition("name", EQ, _parse_value(value))>>, AND)
               /\ value \in PlainValues => parsed = parse("name = " \o value)

\* The records the parsed trees are compared on: every field the texts name
\* holds the same value.
RecordFields ==
    {"id", "name", "active", "created_at", "duration", "price", "brand",
     "android", "color"}

RecordValues ==
    {PyInt(1), PyInt(7), PyInt(100), PyStr("Alice"), PyStr(" Alice "),
     PyStr("Bob"), PyStr("Bob "), PyStr("orange"), PyBool(TRUE), PyFloat(150),
     PyDatetime(770724000), PyDatetime(773107200), PyTimedelta(5400), None}

Records == {[f \in RecordFields |-> v] : v \in RecordValues}

\* C22: round trip.  For every Query q that parse returns, parse(str(q))
\* succeeds and gives a tree with the outcome of q on every record (the same
\* boolean or the same error), for every kind of literal, strings with
\* blanks inside or at their ends included.
RoundTrip ==
    (ParseDone /\ parsed.error = "")
        => /\ parse(NodeStr(parsed.node)).error = ""
           /\ \A it \in Records :
                 Evaluate(parse(NodeStr(parsed.node)).node, it, <<>>).out
                    = Evaluate(parsed.node, it, <<>>).out

RECURSIVE Leaves(_), LeavesFrom(_, _)

\* The Condition leaves of the children from child i on, left to right.
LeavesFrom(queryables, i) ==
    IF i > Len(queryables) THEN <<>>
    ELSE Leaves(queryables[i]) \o LeavesFrom(queryables, i + 1)

\* The Condition leaves of a tree, left to right.
Leaves(node) ==
    IF node.tag = "Condition" THEN <<node>> ELSE LeavesFrom(node.queryables, 1)

\* The tokens of the text that stand between the keywords the tokenizer
\* split at: the first, the third, and so on.
FragmentTokens ==
    [k \in 1..((Len(_tokenize(query_text)) + 1) \div 2)
        |-> _tokenize(query_text)[2 * k - 1]]

\* C29: no fragment is dropped.  Whenever parse returns a Query, its tree has
\* as many Condition leaves as the tokenizer produced fragment tokens (the
\* keywords it split at, plus one), and the leaves are, left to right, the
\* Conditions of the fragments in the order of the text: no fragment is
\* skipped or taken for a logical keyword.
NoFragmentDropped ==
    (ParseDone /\ parsed.error = "")
        => /\ Len(Leaves(parsed.node)) = Len(FragmentTokens)
           /\ \A k \in 1..Len(FragmentTokens) :
                 /\ _parse_condition(FragmentTokens[k]).error = ""
                 /\ Leaves(parsed.node)[k] = _parse_condition(FragmentTokens[k]).node

(***************************************************************************)
(* Properties of filter_items.                                             *)
(***************************************************************************)
\* query.evaluate(it) is True.
Matches(it) == Evaluate(query, it, <<>>).out = RetTrue

\* C10: filter ordering.  As long as no evaluation has raised, the items
\* yielded are exactly the items taken from the list so far that the query
\* matches, each once and in the order of the list; the generator ends only
\* when it has taken the whole list.
FilterOrdering ==
    generator \in {"suspended", "exhausted"}
        => /\ received = SelectSeq(SubSeq(items, 1, position), Matches)
           /\ generator = "exhausted"
                => /\ position = Len(items)
                   /\ received = SelectSeq(items, Matches)

\* A list with the same matching item twice around an item that does not
\* match has been filtered to its end.
FilterOrderingWitness ==
    /\ generator = "exhausted"
    /\ query = Query(<<Condition("attr", GE, PyInt(2)),
                       Condition("attr", EQ, PyInt(1))>>, OR)
    /\ items = <<[attr |-> PyInt(1)], [attr |-> None], [attr |-> PyInt(2)],
                 [attr |-> PyInt(1)]>>
    /\ received = <<[attr |-> PyInt(1)], [attr |-> PyInt(2)], [attr |-> PyInt(1)]>>

\* The indexes 1 .. n in order.
Upto(n) == [k \in 1..n |-> k]

\* The generator has ended, by the end of its list or by an exception.
Ended == generator \notin {"none", "suspended"}

\* C11: lazy single-pass filter.  Calling filter_items evaluates nothing;
\* the items evaluated are the first `position` items of the list, each once
\* and in list order, and evaluations happen only in a next() call; the
\* generator reads no further than the item it yields; it ends when the list
\* is used up, and a generator that has ended stays ended: further next()
\* calls evaluate nothing and yield nothing.
LazySinglePass ==
    /\ [](/\ demands = 0 => evaluated = <<>>
          /\ evaluated = Upto(position)
          /\ (generator = "suspended" /\ demands > 0)
                => /\ position > 0
                   /\ received[Len(received)] = items[position]
          /\ generator = "exhausted" => position = Len(items))
    /\ [][/\ evaluated' # evaluated => demands' = demands + 1
          /\ Ended => UNCHANGED <<generator, position, evaluated, received>>]_vars

\* A list whose second item does not match has been gone through, and next()
\* has been called twice more after its end.
LazySinglePassWitness ==
    /\ generator = "exhausted"
    /\ query = Query(<<Condition("attr", EQ, PyInt(1))>>, AND)
    /\ items = <<[attr |-> PyInt(1)], [attr |-> PyInt(2)], [attr |-> PyInt(1)]>>
    /\ evaluated = <<1, 2, 3>>
    /\ Len(received) = 2
    /\ demands = 5

\* [item.id for item in result]
ReceivedIds == [k \in 1..Len(received) |-> received[k].id.n]

\* C23: end-to-end scenario.  On the four records of the filter test, parsing
\* "created_at <= 2024-06-03 OR duration < 1:00:00" and filtering yields the
\* ids 1, 2, 3 in that order: the date-only literal is midnight of that day,
\* so record 3 is matched through the duration condition only, and record 4
\* through neither condition.
EndToEndScenario ==
    (query_text = "created_at <= 2024-06-03 OR duration < 1:00:00"
        /\ generator = "exhausted")
        => /\ ReceivedIds = <<1, 2, 3>>
           /\ query.queryables[1].value = At(2024, 6, 3, 0, 0)
           /\ ConditionEvaluate(query.queryables[1], items[3]) = RetFalse
           /\ ConditionEvaluate(query.queryables[2], items[3]) = RetTrue
           /\ ConditionEvaluate(query.queryables[1], items[4]) = RetFalse
           /\ ConditionEvaluate(query.queryables[2], items[4]) = RetFalse

\* The scenario's filter has been consumed to its end, records 1, 2 and 3
\* received and all four evaluated.
EndToEndScenarioWitness ==
    /\ query_text = "created_at <= 2024-06-03 OR duration < 1:00:00"
    /\ items = TestItems
    /\ generator = "exhausted"
    /\ evaluated = <<1, 2, 3, 4>>
    /\ received = <<TestItems[1], TestItems[2], TestItems[3]>>

\* C25: evaluation is read-only.  filter_items and the Condition.evaluate
\* and Query.evaluate calls made for it leave the Query tree and the records
\* as they were, whether the calls return or raise.
EvaluationReadOnly == [][query' = query /\ items' = items]_vars

\* A list has been filtered up to an evaluation that raised, after an item
\* was yielded and an item was passed over.
EvaluationReadOnlyWitness ==
    /\ generator = "TypeMismatchError"
    /\ Len(items) = 4
    /\ position = 3
    /\ Len(received) = 1
    /\ demands = 2

\* query.evaluate raises on item k of the list.
RaisesAt(k) == Raised(Evaluate(query, items[k], <<>>).out)

\* The generator has ended by an exception of query.evaluate.
Failing == generator \notin {"none", "suspended", "exhausted"}

\* C28: error during lazy filtering.  filter_items does not raise when it is
\* called.  If query.evaluate raises for item k of the list, the generator
\* gets no further than item k and ends there with that error; the consumer
\* has by then received, in order, the matching items among the first k - 1;
\* the error comes out of the next() call that asks for one item more than
\* were received; and afterwards nothing is evaluated or yielded.
ErrorWhileFiltering ==
    /\ [](/\ demands = 0 => ~Failing
          /\ \A k \in 1..Len(items) :
                (RaisesAt(k) /\ \A j \in 1..(k - 1) : ~RaisesAt(j))
                    => /\ position <= k
                       /\ (generator # "none" /\ position = k)
                            => generator = Evaluate(query, items[k], <<>>).out
          /\ Failing
                => /\ RaisesAt(position)
                   /\ received = SelectSeq(SubSeq(items, 1, position - 1), Matches)
                   /\ evaluated = Upto(position)
                   /\ demands > Len(received))
    /\ [][/\ (Failing' /\ ~Failing)
                => /\ demands' = Len(received) + 1
                   /\ received' = received
          /\ Failing => UNCHANGED <<generator, position, evaluated, received>>]_vars

\* The second of three items raised when it was asked for; one item had been
\* received, and a further next() has been made since.
ErrorWhileFilteringWitness ==
    /\ generator = "TypeMismatchError"
    /\ Len(items) = 3
    /\ position = 2
    /\ received = <<items[1]>>
    /\ evaluated = <<1, 2>>
    /\ demands = 3

(***************************************************************************)
(* Properties of concurrent evaluation.                                    *)
(***************************************************************************)
\* C24: concurrent evaluation.  When several threads evaluate one parsed
\* Query at once, each on a different record nobody mutates, then in every
\* interleaving each evaluation ends with the outcome it has when run alone.
ConcurrentEvaluation ==
    \A t \in DOMAIN threads :
        threads[t].out # "running"
            => threads[t].out = Evaluate(query, threads[t].item, <<>>).out

\* Thread 2 has finished with True while thread 1, started on another
\* record, is inside the loop of the same tree, past its first child.
ConcurrentEvaluationWitness ==
    /\ threads # <<>>
    /\ threads[2].out = RetTrue
    /\ threads[1].out = "running"
    /\ threads[1].frames # <<>>
    /\ threads[1].frames[1].node = query
    /\ threads[1].frames[1].i = 2

(***************************************************************************)
(* Properties of literal coercion.                                         *)
(***************************************************************************)
ValueDone == coerced # Pending

\* The formats of the list that take the text, in the list's order.
Taking(text, formats) ==
    SelectSeq(formats, LAMBDA fmt : Strptime(text, fmt).ok)

\* C12: literal coercion order.  _parse_value returns what the first step
\* that succeeds gives, in the order boolean (true / false in any case),
\* integer, floating point, timestamp (the six formats in their order),
\* duration (H:M:S, then H:M), and otherwise the text itself, unchanged.  A
\* text int() or float() takes is never returned as a timestamp, and a text
\* a timestamp format takes is never returned as a string.
CoercionOrder ==
    ValueDone
        => /\ coerced =
                IF Lower(literal) \in {"true", "false"}
                THEN PyBool(Lower(literal) = "true")
                ELSE IF ParseInt(literal).ok THEN ParseInt(literal).v
                ELSE IF ParseFloat(literal).ok THEN ParseFloat(literal).v
                ELSE IF Taking(literal, DatetimeFormats) # <<>>
                THEN DatetimeOf(Strptime(literal,
                                         Taking(literal, DatetimeFormats)[1]).fields)
                ELSE IF Taking(literal, TimedeltaFormats) # <<>>
                THEN TimedeltaOf(Strptime(literal,
                                          Taking(literal, TimedeltaFormats)[1]).fields)
                ELSE PyStr(literal)
           /\ (ParseInt(literal).ok \/ ParseFloat(literal).ok)
                => coerced.kind \in {"int", "float"}
           /\ ParseInt(literal).ok => coerced.kind = "int"
           /\ Taking(literal, DatetimeFormats) # <<>> => coerced.kind = "datetime"
           /\ coerced.kind = "str" => coerced.s = literal

\* "100", which int() and float() both take, has been coerced to the int.
CoercionOrderWitness ==
    /\ ValueDone
    /\ literal = "100"
    /\ coerced = PyInt(100)

\* C27: duration literals are elapsed time.  For every literal H:MM:SS or
\* H:MM with minutes and seconds in 0..59 and H any count of hours, 24 and
\* above included, _parse_value returns the duration of H hours, MM minutes
\* and SS seconds.
DurationElapsed ==
    \A h \in DurationHours, m \in DurationMinutes, sec \in DurationSeconds :
        ValueDone
            => /\ literal = HoursMinutesSeconds(h, m, sec)
                    => coerced = PyTimedelta(h * 3600 + m * 60 + sec)
               /\ literal = HoursMinutes(h, m)
                    => coerced = PyTimedelta(h * 3600 + m * 60)

(***************************************************************************)
(* Properties of the application.                                          *)
(***************************************************************************)
\* C30: reset restores the full list.  After any filter submissions, once
\* action_reset_filter has run the master table shows the complete list of
\* jobs, the one shown right after on_mount, and self.jobs is the list of the
\* rows shown.
ResetRestoresAll ==
    [][action_reset_filter => (master' = AllJobs /\ jobs' = master')]_vars

====
